---- MODULE Spec2Model ----
(***************************************************************************)
(* A model of IntentController (src/intent_controller.py): the pattern and *)
(* keyword classifier, the slot extractors, the completeness checker, the  *)
(* action selector, the action executor and the arithmetic evaluator.      *)
(*                                                                         *)
(* Python strings are TLA+ strings; a character is a string of length 1.   *)
(* Regular expressions are sequences of elements interpreted by a          *)
(* backtracking matcher with the priorities of Python's re module.         *)
(***************************************************************************)
EXTENDS Integers, Sequences, FiniteSets, TLC

VARIABLES
    required_fields,   \* self.required_fields
    api_endpoints,     \* self.api_endpoints
    intent_patterns,   \* self.intent_patterns
    intent_keywords,   \* self.intent_keywords
    pc,                \* position inside process_input / the direct call made
    user_input,        \* the argument of process_input
    intent_result,     \* local of process_input
    missing_info,      \* local of process_input
    action,            \* (action_type, action_data) of process_input
    result,            \* local of process_input
    response,          \* the value process_input returned
    last,              \* what the previous call on this controller returned
    unit               \* the last direct call of a method: its arguments and its value

vars == <<required_fields, api_endpoints, intent_patterns, intent_keywords,
          pc, user_input, intent_result, missing_info, action, result,
          response, last, unit>>

tables == <<required_fields, api_endpoints, intent_patterns, intent_keywords>>

-----------------------------------------------------------------------------
(* Characters and the str methods the controller uses.                     *)

Char(s, i) == SubSeq(s, i, i)

UpperLetters == "ABCDEFGHIJKLMNOPQRSTUVWXYZ"
LowerLetters == "abcdefghijklmnopqrstuvwxyz"
Digits == "0123456789"

CharsOf(s) == {Char(s, i) : i \in 1..Len(s)}

UpperSet == CharsOf(UpperLetters)
LowerSet == CharsOf(LowerLetters)
DigitSet == CharsOf(Digits)
WhiteSpace == {" ", "\t", "\n"}
WordSet == UpperSet \cup LowerSet \cup DigitSet \cup {"_"}

IndexIn(s, c) == CHOOSE i \in 1..Len(s) : Char(s, i) = c

LowerChar(c) == IF c \in UpperSet THEN Char(LowerLetters, IndexIn(UpperLetters, c)) ELSE c

\* the least and the greatest element of a non-empty set of integers
Least(S) == CHOOSE j \in S : \A k \in S : j <= k
Greatest(S) == CHOOSE j \in S : \A k \in S : k <= j

\* the k-th element of a set of integers in increasing order
Nth(S, k) == CHOOSE j \in S : Cardinality({i \in S : i < j}) = k - 1

Min(a, b) == IF a < b THEN a ELSE b

\* the characters lo..hi of s in lower case
RECURSIVE LowerRange(_, _, _)
LowerRange(s, lo, hi) ==
    IF lo > hi THEN ""
    ELSE IF lo = hi THEN LowerChar(Char(s, lo))
    ELSE LowerRange(s, lo, (lo + hi) \div 2) \o LowerRange(s, (lo + hi) \div 2 + 1, hi)

\* str.lower()
Lower(s) == LowerRange(s, 1, Len(s))

RECURSIVE FirstNonSpace(_, _)
FirstNonSpace(s, i) ==
    IF i > Len(s) \/ Char(s, i) \notin WhiteSpace THEN i ELSE FirstNonSpace(s, i + 1)

RECURSIVE LastNonSpace(_, _)
LastNonSpace(s, i) ==
    IF i < 1 \/ Char(s, i) \notin WhiteSpace THEN i ELSE LastNonSpace(s, i - 1)

\* str.strip()
Strip(s) == SubSeq(s, FirstNonSpace(s, 1), LastNonSpace(s, Len(s)))

StartsAt(s, i, sub) == i + Len(sub) - 1 <= Len(s) /\ SubSeq(s, i, i + Len(sub) - 1) = sub

\* str.startswith
StartsWith(s, sub) == StartsAt(s, 1, sub)

\* the positions at which sub occurs in s
Occurrences(s, sub) == {i \in 1..(Len(s) - Len(sub) + 1) : StartsAt(s, i, sub)}

\* str.find, 1-based; 0 when absent
Find(s, sub) == IF Occurrences(s, sub) = {} THEN 0 ELSE Least(Occurrences(s, sub))

\* the `sub in s` operator on strings
Contains(s, sub) == Occurrences(s, sub) # {}

\* no character of a word at position i
IsSpaceAt(s, i) == i < 1 \/ i > Len(s) \/ Char(s, i) \in WhiteSpace

\* the positions at which a whitespace-separated word begins
WordStarts(s) == {i \in 1..Len(s) : ~IsSpaceAt(s, i) /\ IsSpaceAt(s, i - 1)}

\* the word that begins at position b
WordAt(s, b) == SubSeq(s, b, Least({j \in b..Len(s) : IsSpaceAt(s, j + 1)}))

\* str.split() with no argument
Split(s) == [k \in 1..Cardinality(WordStarts(s)) |-> WordAt(s, Nth(WordStarts(s), k))]

\* `x in list`
InList(x, xs) == \E i \in 1..Len(xs) : xs[i] = x

-----------------------------------------------------------------------------
(* Regular expressions: a pattern is a sequence of elements; Match tries   *)
(* the alternatives of every element in the order Python's backtracking    *)
(* matcher tries them and returns the first complete match.                *)

Inf == 1000000

Lit(t) == [k |-> "lit", s |-> t]
Rep(c, lo, hi, lz) == [k |-> "rep", cls |-> c, min |-> lo, max |-> hi, lazy |-> lz]
Alt(as) == [k |-> "alt", alts |-> as]
Star(b) == [k |-> "star", body |-> b]
Open(i) == [k |-> "open", idx |-> i]
Close(i) == [k |-> "close", idx |-> i]
AtEnd == [k |-> "end"]
WordB == [k |-> "wb"]

\* a character class: the set, or its complement when neg
Class(S) == [neg |-> FALSE, set |-> S]
\* `.` matches any character but the newline
AnyChar == [neg |-> TRUE, set |-> {"\n"}]
Space == Class(WhiteSpace)

InClass(c, cls) == (c \in cls.set) # cls.neg

\* (?:a|b|c) over literal alternatives
Words(ws) == <<Alt([i \in 1..Len(ws) |-> <<Lit(ws[i])>>])>>
\* (?:body)?
Opt(body) == <<Alt(<<body, <<>>>>)>>
\* \s+
WS == <<Rep(Space, 1, Inf, FALSE)>>
\* (.+?) and (.+) as capture group i
GLazy(i) == <<Open(i), Rep(AnyChar, 1, Inf, TRUE), Close(i)>>
GGreedy(i) == <<Open(i), Rep(AnyChar, 1, Inf, FALSE), Close(i)>>
\* a capture group around a sub-pattern
Group(i, body) == <<Open(i)>> \o body \o <<Close(i)>>

NoGroup == [some |-> FALSE, b |-> 0, s |-> ""]
NoMatch == [ok |-> FALSE]

\* where the run of characters of the class that begins at position i ends
RunEnd(s, i, cls) == Least({j \in i..(Len(s) + 1) : j > Len(s) \/ ~InClass(Char(s, j), cls)})

\* the length of that run, hi at most
RunLen(s, i, cls, hi) == Min(hi, RunEnd(s, i, cls) - i)

IsWordAt(s, i) == i >= 1 /\ i <= Len(s) /\ Char(s, i) \in WordSet

\* what the next element of a pattern is
Kind(es) == IF es = <<>> THEN "done" ELSE es[1].k

\* the characters a repetition takes first and the step to its next attempt, n
\* being the run it can take: a lazy one grows from its minimum, a greedy one
\* shrinks from the whole run
RepFirst(el, n) == IF el.lazy THEN el.min ELSE n
RepStep(el) == IF el.lazy THEN 1 ELSE -1

OpenAt(caps, g, i) == [caps EXCEPT ![g] = [some |-> @.some, b |-> i, s |-> @.s]]
CloseAt(caps, g, s, i) == [caps EXCEPT ![g] = [some |-> TRUE, b |-> @.b, s |-> SubSeq(s, @.b, i - 1)]]

RECURSIVE Match(_, _, _, _)
RECURSIVE RepTry(_, _, _, _, _, _, _, _, _)
RECURSIVE AltTry(_, _, _, _, _, _, _, _)

\* the elements es matched from position i of s on
Match(es, s, i, caps) ==
    CASE Kind(es) = "done" -> [ok |-> TRUE, e |-> i, caps |-> caps]
      [] Kind(es) = "lit" /\ StartsAt(s, i, es[1].s) ->
             Match(Tail(es), s, i + Len(es[1].s), caps)
      [] Kind(es) = "rep" /\ RunLen(s, i, es[1].cls, es[1].max) >= es[1].min ->
             RepTry(Tail(es), s, i, caps,
                    RepFirst(es[1], RunLen(s, i, es[1].cls, es[1].max)), RepStep(es[1]),
                    0, RunLen(s, i, es[1].cls, es[1].max) - es[1].min, NoMatch)
      [] Kind(es) = "alt" -> AltTry(es[1].alts, Tail(es), s, i, caps, 1, Len(es[1].alts), NoMatch)
      [] Kind(es) = "star" /\ Match(es[1].body \o es, s, i, caps).ok ->
             Match(es[1].body \o es, s, i, caps)
      [] Kind(es) = "star" /\ ~Match(es[1].body \o es, s, i, caps).ok ->
             Match(Tail(es), s, i, caps)
      [] Kind(es) = "open" -> Match(Tail(es), s, i, OpenAt(caps, es[1].idx, i))
      [] Kind(es) = "close" -> Match(Tail(es), s, i, CloseAt(caps, es[1].idx, s, i))
      [] Kind(es) = "end" /\ (i = Len(s) + 1 \/ (i = Len(s) /\ Char(s, i) = "\n")) ->
             Match(Tail(es), s, i, caps)
      [] Kind(es) = "wb" /\ IsWordAt(s, i - 1) # IsWordAt(s, i) -> Match(Tail(es), s, i, caps)
      [] OTHER -> NoMatch

\* the repetition takes first + step * d characters, for the least d of lo..hi
\* with which the rest matches, unless t, the attempt before these, has matched:
\* the lower third of the range is tried before the rest of it
RepTry(rest, s, i, caps, first, step, lo, hi, t) ==
    CASE t.ok -> t
      [] ~t.ok /\ lo = hi -> Match(rest, s, i + first + step * lo, caps)
      [] OTHER -> RepTry(rest, s, i, caps, first, step, lo + (hi - lo) \div 3 + 1, hi,
                         RepTry(rest, s, i, caps, first, step, lo, lo + (hi - lo) \div 3, NoMatch))

\* the alternatives lo..hi in their order, unless t, the attempt before these, has matched
AltTry(alts, rest, s, i, caps, lo, hi, t) ==
    CASE t.ok -> t
      [] ~t.ok /\ lo = hi -> Match(alts[lo] \o rest, s, i, caps)
      [] OTHER -> AltTry(alts, rest, s, i, caps, (lo + hi) \div 2 + 1, hi,
                         AltTry(alts, rest, s, i, caps, lo, (lo + hi) \div 2, NoMatch))

\* the number of capture groups of a pattern
RECURSIVE NGroups(_)
RECURSIVE ElGroups(_)
NGroups(es) == Greatest({0} \cup {ElGroups(es[j]) : j \in 1..Len(es)})

ElGroups(el) ==
    CASE el.k = "open" -> el.idx
      [] el.k = "alt" -> Greatest({0} \cup {NGroups(el.alts[j]) : j \in 1..Len(el.alts)})
      [] el.k = "star" -> NGroups(el.body)
      [] OTHER -> 0

\* the capture groups of a pattern of n groups before anything has matched
NoGroups(n) == [g \in 1..n |-> NoGroup]

\* the positions from i on at which the pattern matches
MatchStarts(p, s, i, n) == {j \in i..(Len(s) + 1) : Match(p, s, j, NoGroups(n)).ok}

\* the match that begins at position i
MatchAt(i, t) == [ok |-> TRUE, b |-> i, e |-> t.e, caps |-> t.caps]

\* the match at the least of the positions at which the pattern matches
SearchAmong(p, s, n, starts) ==
    IF starts = {} THEN NoMatch
    ELSE MatchAt(Least(starts), Match(p, s, Least(starts), NoGroups(n)))

\* the scan of re.search from position i on, n being the number of groups
SearchFrom(p, s, i, n) == SearchAmong(p, s, n, MatchStarts(p, s, i, n))

\* re.search(p, s): the leftmost match, or NoMatch
Search(p, s) == SearchFrom(p, s, 1, NGroups(p))

\* match.groups(): one entry per group, None as [some |-> FALSE]
Groups(m) == [g \in DOMAIN m.caps |-> [some |-> m.caps[g].some, s |-> m.caps[g].s]]

\* match.group(0)
Whole(s, m) == SubSeq(s, m.b, m.e - 1)

RECURSIVE FindAllFrom(_, _, _, _)
RECURSIVE FindAllNext(_, _, _, _)
FindAllFrom(p, s, i, n) == FindAllNext(p, s, n, SearchFrom(p, s, i, n))

\* t is the next match, if any
FindAllNext(p, s, n, t) ==
    IF ~t.ok THEN <<>>
    ELSE <<SubSeq(s, t.b, t.e - 1)>>
         \o FindAllFrom(p, s, IF t.e = t.b THEN t.e + 1 ELSE t.e, n)

\* re.findall(p, s) for a pattern without capture groups
FindAll(p, s) == FindAllFrom(p, s, 1, 0)

-----------------------------------------------------------------------------
(* The controller's tables, as __init__ builds them.  A dict is a sequence *)
(* of <<key, value>> pairs in insertion order, the order .items() yields.  *)

Keys(d) == [i \in 1..Len(d) |-> d[i][1]]
HasKey(d, key) == \E i \in 1..Len(d) : d[i][1] = key
Get(d, key) == d[CHOOSE i \in 1..Len(d) : d[i][1] = key][2]

\* a table that requires only what the extractors can set
RequiredFieldsExtracted ==
    << <<"calculate", <<"operation", "numbers">> >>,
       <<"weather", <<"location">> >>,
       <<"book_flight", <<"origin", "destination", "date">> >>,
       <<"send_email", <<"recipient", "subject">> >>,
       <<"search", <<"query">> >>,
       <<"schedule_meeting", <<"participants", "date">> >> >>

RequiredFields ==
    << <<"calculate", <<"operation", "numbers">> >>,
       <<"weather", <<"location">> >>,
       <<"book_flight", <<"origin", "destination", "date">> >>,
       <<"send_email", <<"recipient", "subject", "message">> >>,
       <<"search", <<"query">> >>,
       <<"schedule_meeting", <<"participants", "date", "duration">> >> >>

ApiEndpoints ==
    << <<"calculate", "calculator_api">>,
       <<"weather", "weather_api">>,
       <<"book_flight", "flight_booking_api">>,
       <<"send_email", "email_api">>,
       <<"search", "search_api">>,
       <<"schedule_meeting", "calendar_api">> >>

L(t) == <<Lit(t)>>
\* (?:\s+on\s+(.+))? with capture group i
OnDate(i) == Opt(WS \o L("on") \o WS \o GGreedy(i))
\* (?:\s+about\s+(.+))? with capture group i
AboutGroup(i) == Opt(WS \o L("about") \o WS \o GGreedy(i))

CalculatePatterns ==
    << Words(<<"calculate", "compute", "add", "subtract", "multiply", "divide">>) \o WS \o GLazy(1) \o WS
         \o Words(<<"plus", "minus", "times", "divided by", "multiply", "divide">>) \o WS \o GGreedy(2),
       Words(<<"what is", "what's">>) \o WS \o GLazy(1) \o WS
         \o Words(<<"plus", "minus", "times", "divided by">>) \o WS \o GGreedy(2),
       Words(<<"add", "subtract", "multiply", "divide">>) \o WS \o GLazy(1) \o WS
         \o Words(<<"and", "to", "by">>) \o WS \o GGreedy(2),
       Words(<<"sum", "total", "result">>) \o WS \o L("of") \o WS \o GLazy(1) \o WS
         \o Words(<<"and", "plus">>) \o WS \o GGreedy(2),
       Words(<<"calculate", "compute">>) \o WS \o GLazy(1) \o WS
         \o Words(<<"and", "with">>) \o WS \o GGreedy(2),
       Words(<<"math", "mathematics", "arithmetic">>) \o WS \o Words(<<"with", "using">>) \o WS \o GLazy(1) \o WS
         \o Words(<<"and", "plus", "minus", "times", "divided by">>) \o WS \o GGreedy(2),
       Words(<<"power", "exponent">>) \o WS \o GLazy(1) \o WS
         \o Words(<<"to", "raised to">>) \o WS \o GGreedy(2),
       Words(<<"square root", "sqrt">>) \o WS \o L("of") \o WS \o GGreedy(1),
       Words(<<"root", "radical">>) \o WS \o L("of") \o WS \o GGreedy(1) >>

WeatherPatterns ==
    << Words(<<"weather", "temperature", "forecast">>) \o WS \o Opt(L("in") \o WS) \o GGreedy(1),
       Words(<<"what's", "what is">>) \o WS \o L("the") \o WS \o L("weather") \o WS
         \o Opt(L("like") \o WS) \o Opt(L("in") \o WS) \o GGreedy(1),
       Words(<<"how's", "how is">>) \o WS \o L("the") \o WS \o L("weather") \o WS
         \o Opt(L("in") \o WS) \o GGreedy(1),
       Words(<<"weather", "temperature">>) \o WS \o Words(<<"for", "in">>) \o WS \o GGreedy(1),
       Words(<<"forecast", "weather forecast">>) \o WS \o Words(<<"for", "in">>) \o WS \o GGreedy(1),
       Words(<<"is it", "will it">>) \o WS \o Words(<<"rain", "snow", "sunny", "cloudy">>) \o WS
         \o Opt(L("in") \o WS) \o GGreedy(1) >>

\* (?:from\s+)?(.+?)\s+(?:to\s+)?(.+?)(?:\s+on\s+(.+))?
FromTo == Opt(L("from") \o WS) \o GLazy(1) \o WS \o Opt(L("to") \o WS) \o GLazy(2) \o OnDate(3)

BookFlightPatterns ==
    << Words(<<"book", "reserve", "schedule">>) \o WS \o Opt(L("a") \o WS) \o L("flight") \o WS \o FromTo,
       Words(<<"fly", "travel", "go">>) \o WS \o FromTo,
       Words(<<"flight", "ticket">>) \o WS \o FromTo,
       Words(<<"i want to", "i need to", "can you">>) \o WS \o Words(<<"fly", "travel", "go">>) \o WS \o FromTo,
       Words(<<"book", "reserve">>) \o WS \o Opt(L("a") \o WS) \o Words(<<"ticket", "seat">>) \o WS \o FromTo,
       FromTo \o WS \o Words(<<"flight", "ticket", "travel">>) >>

SendEmailPatterns ==
    << Words(<<"send", "write", "compose">>) \o WS \o Opt(L("an") \o WS) \o L("email") \o WS
         \o Opt(L("to") \o WS) \o GLazy(1) \o AboutGroup(2),
       Words(<<"email", "mail">>) \o WS \o GLazy(1) \o Opt(WS \o L("regarding") \o WS \o GGreedy(2)),
       Words(<<"send", "write">>) \o WS \o Opt(L("a") \o WS) \o L("message") \o WS
         \o Opt(L("to") \o WS) \o GLazy(1) \o AboutGroup(2),
       Words(<<"contact", "reach out to">>) \o WS \o GLazy(1) \o AboutGroup(2),
       Words(<<"i want to", "i need to">>) \o WS \o Words(<<"send", "write">>) \o WS \o Opt(L("an") \o WS)
         \o L("email") \o WS \o Opt(L("to") \o WS) \o GLazy(1) \o AboutGroup(2) >>

SearchPatterns ==
    << Words(<<"search", "find", "look up">>) \o WS \o GGreedy(1),
       Words(<<"what is", "what's">>) \o WS \o GGreedy(1),
       Words(<<"tell me about", "information about">>) \o WS \o GGreedy(1),
       Words(<<"i want to know", "i need to know">>) \o WS \o GGreedy(1),
       Words(<<"can you tell me", "do you know">>) \o WS \o GGreedy(1),
       Words(<<"help me find", "show me">>) \o WS \o GGreedy(1) >>

\* (?:with\s+)?(.+?)(?:\s+on\s+(.+))?
WithWhom == Opt(L("with") \o WS) \o GLazy(1) \o OnDate(2)

ScheduleMeetingPatterns ==
    << Words(<<"schedule", "book", "arrange">>) \o WS \o Opt(L("a") \o WS) \o L("meeting") \o WS \o WithWhom,
       Words(<<"meet", "meeting">>) \o WS \o WithWhom,
       Words(<<"set up", "organize">>) \o WS \o Opt(L("a") \o WS) \o L("meeting") \o WS \o WithWhom,
       Words(<<"i want to", "i need to">>) \o WS \o Words(<<"meet", "schedule">>) \o WS \o WithWhom,
       Words(<<"appointment", "call">>) \o WS \o WithWhom >>

IntentPatterns ==
    << <<"calculate", CalculatePatterns>>,
       <<"weather", WeatherPatterns>>,
       <<"book_flight", BookFlightPatterns>>,
       <<"send_email", SendEmailPatterns>>,
       <<"search", SearchPatterns>>,
       <<"schedule_meeting", ScheduleMeetingPatterns>> >>

IntentKeywords ==
    << <<"calculate", <<"calculate", "compute", "add", "subtract", "multiply", "divide", "math",
                        "sum", "total", "plus", "minus", "times">> >>,
       <<"weather", <<"weather", "temperature", "forecast", "rain", "snow", "sunny", "cloudy",
                      "hot", "cold">> >>,
       <<"book_flight", <<"flight", "fly", "travel", "ticket", "airline", "airport", "from", "to",
                          "destination", "origin">> >>,
       <<"send_email", <<"email", "mail", "send", "message", "contact", "recipient", "inbox">> >>,
       <<"search", <<"search", "find", "look", "what", "tell", "information", "know", "help">> >>,
       <<"schedule_meeting", <<"meeting", "schedule", "appointment", "call", "meet", "calendar",
                               "book">> >> >>

-----------------------------------------------------------------------------
(* Values.  A dict with string keys built by the extractors is a function  *)
(* from its keys; d[k] = v is Put(d, k, v).  A call that can raise yields  *)
(* Ret(v) or Raise(e, msg).                                                *)

EmptyDict == <<>>
Put(d, key, v) == (key :> v) @@ d
Truthy(v) == Len(v) > 0

Ret(v) == [ret |-> v]
Raise(e, m) == [exc |-> e, msg |-> m]
IsRaise(r) == "exc" \in DOMAIN r

\* groups[i] read one place too far, as with a 1-based index
GroupAtNext(groups, i) ==
    IF i + 1 <= Len(groups) THEN Ret(groups[i + 1])
    ELSE Raise("IndexError", "tuple index out of range")

\* groups[i], which raises IndexError past the end of the tuple
GroupAt(groups, i) ==
    IF i <= Len(groups) THEN Ret(groups[i]) ELSE Raise("IndexError", "tuple index out of range")

\* `g.strip() if g else ""` for a group g that may be None
StripOrEmpty(g) == IF g.some /\ Truthy(g.s) THEN Strip(g.s) ELSE ""

-----------------------------------------------------------------------------
(* The patterns of the keyword-mode extractors.                            *)

Alpha == LowerSet \cup UpperSet
AlphaSpace == Class(Alpha \cup WhiteSpace)
Digit == Class(DigitSet)
\* (?:\s|$)
SpaceOrEnd == <<Alt(<< <<Rep(Space, 1, 1, FALSE)>>, <<AtEnd>> >>)>>
\* ([a-zA-Z\s]+?) as capture group i
GAlphaLazy(i) == <<Open(i), Rep(AlphaSpace, 1, Inf, TRUE), Close(i)>>

\* \d+(?:\.\d+)?
\* a number pattern that takes a minus sign: -?\d+(?:\.\d+)?
SignedNumberRe ==
    Opt(L("-")) \o <<Rep(Digit, 1, Inf, FALSE)>> \o Opt(L(".") \o <<Rep(Digit, 1, Inf, FALSE)>>)

NumberRe == <<Rep(Digit, 1, Inf, FALSE)>> \o Opt(L(".") \o <<Rep(Digit, 1, Inf, FALSE)>>)

location_patterns ==
    << Words(<<"in", "at", "for">>) \o WS \o GAlphaLazy(1) \o SpaceOrEnd,
       L("weather") \o WS \o Words(<<"in", "at", "for">>) \o WS \o GAlphaLazy(1) \o SpaceOrEnd >>

\* \b[A-Z][a-z]+(?:\s+[A-Z][a-z]+)*\b
CapWord == <<Rep(Class(UpperSet), 1, 1, FALSE), Rep(Class(LowerSet), 1, Inf, FALSE)>>
\* a pattern of words in any case: \b[A-Za-z][a-z]+\b
AnyCaseRe ==
    <<WordB, Rep(Class(UpperSet \cup LowerSet), 1, 1, FALSE), Rep(Class(LowerSet), 1, Inf, FALSE),
      WordB>>

CapitalizedRe == <<WordB>> \o CapWord \o <<Star(WS \o CapWord)>> \o <<WordB>>

from_to_pattern ==
    Words(<<"from", "departing">>) \o WS \o GAlphaLazy(1) \o WS
      \o Words(<<"to", "arriving at">>) \o WS \o GAlphaLazy(2) \o SpaceOrEnd

DateHead == Words(<<"on", "date", "when">>) \o WS
D12 == <<Rep(Digit, 1, 2, FALSE)>>
D4 == <<Rep(Digit, 4, 4, FALSE)>>
date_patterns ==
    << DateHead \o Group(1, <<Rep(Class(Alpha), 1, Inf, FALSE)>> \o WS \o D12
                              \o <<Rep(Class({","}), 0, 1, FALSE)>> \o WS \o D4),
       DateHead \o Group(1, D12 \o L("/") \o D12 \o L("/") \o D4),
       DateHead \o Group(1, D12 \o L("-") \o D12 \o L("-") \o D4) >>

\* \b[A-Za-z0-9._%+-]+@[A-Za-z0-9.-]+\.[A-Z|a-z]{2,}\b
email_pattern ==
    <<WordB, Rep(Class(Alpha \cup DigitSet \cup {".", "_", "%", "+", "-"}), 1, Inf, FALSE)>>
      \o L("@") \o <<Rep(Class(Alpha \cup DigitSet \cup {".", "-"}), 1, Inf, FALSE)>>
      \o L(".") \o <<Rep(Class(Alpha \cup {"|"}), 2, Inf, FALSE), WordB>>

subject_pattern == Words(<<"about", "regarding", "subject">>) \o WS \o GAlphaLazy(1) \o SpaceOrEnd

with_pattern == Words(<<"with", "meeting with">>) \o WS \o GAlphaLazy(1) \o SpaceOrEnd

search_keywords == <<"search", "find", "look", "what", "tell", "information", "know", "help">>

-----------------------------------------------------------------------------
(* _detect_operation and _parse_calculation                                *)

detect_operation(text0) ==
    LET text == Lower(text0)
    IN IF Contains(text, "plus") \/ Contains(text, "+") THEN "add"
       ELSE IF Contains(text, "minus") \/ Contains(text, "-") THEN "subtract"
       ELSE IF Contains(text, "times") \/ Contains(text, "*") \/ Contains(text, "multiply") THEN "multiply"
       ELSE IF Contains(text, "divide") \/ Contains(text, "/") \/ Contains(text, "divided by") THEN "divide"
       ELSE IF Contains(text, "power") \/ Contains(text, "exponent") \/ Contains(text, "raised to")
               \/ Contains(text, "^") THEN "power"
       ELSE IF Contains(text, "square root") \/ Contains(text, "sqrt") \/ Contains(text, "root")
               \/ Contains(text, "radical") THEN "sqrt"
       ELSE "add"

parse_calculation(text) ==
    LET operation ==
            IF Contains(text, "plus") \/ Contains(text, "+") THEN "add"
            ELSE IF Contains(text, "minus") \/ Contains(text, "-") THEN "subtract"
            ELSE IF Contains(text, "times") \/ Contains(text, "*") \/ Contains(text, "multiply") THEN "multiply"
            ELSE IF Contains(text, "divide") \/ Contains(text, "/") THEN "divide"
            ELSE "add"
        numbers == FindAll(NumberRe, text)
    IN Put(Put(EmptyDict, "operation", operation), "numbers", numbers)

-----------------------------------------------------------------------------
(* _extract_info_by_keywords                                               *)

\* the first pattern of ps that matches s, as its group 1 stripped; "" when none does
RECURSIVE FirstGroup1(_, _, _)
RECURSIVE FirstGroup1Next(_, _, _, _)
FirstGroup1(ps, s, j) ==
    IF j > Len(ps) THEN [found |-> FALSE, s |-> ""]
    ELSE FirstGroup1Next(ps, s, j, Search(ps[j], s))

\* m is what re.search gave for the j-th pattern
FirstGroup1Next(ps, s, j, m) ==
    IF m.ok THEN [found |-> TRUE, s |-> Strip(Groups(m)[1].s)]
    ELSE FirstGroup1(ps, s, j + 1)

\* the loop over search_keywords: the text after the first keyword found
RECURSIVE QueryAfter(_, _)
QueryAfter(s, j) ==
    IF j > Len(search_keywords) THEN s
    ELSE LET at == Find(s, search_keywords[j])
         IN IF at > 0 THEN Strip(SubSeq(s, at + Len(search_keywords[j]), Len(s)))
            ELSE QueryAfter(s, j + 1)

\* a store that does not ask whether the search found something
PutAlways(extracted, key, found) == Put(extracted, key, found.s)

\* extracted[key] = found.s when the search found something
PutFound(extracted, key, found) ==
    IF found.found THEN Put(extracted, key, found.s) ELSE extracted

\* extracted[key] = first[0] when the list is not empty
PutFirst(extracted, key, first) ==
    IF Len(first) > 0 THEN Put(extracted, key, first[1]) ELSE extracted

\* extracted[key] = match.group(g).strip() for each <<key, g>> of slots, when m matched
PutMatch(extracted, slots, m) ==
    IF ~m.ok THEN extracted
    ELSE [key \in {slots[j][1] : j \in 1..Len(slots)} |->
             Strip(Groups(m)[(CHOOSE j \in 1..Len(slots) : slots[j][1] = key)].s)]
         @@ extracted

WithDate(extracted, s) == PutFound(extracted, "date", FirstGroup1(date_patterns, s, 1))

\* lines 190-206: a location after in, at or for, else the first capitalized words
LocationOf(loc, s) ==
    IF loc.found THEN Put(EmptyDict, "location", loc.s)
    ELSE PutFirst(EmptyDict, "location", FindAll(CapitalizedRe, s))

extract_info_by_keywords(intent, s) ==
    CASE intent = "calculate" ->
            Put(Put(EmptyDict, "operation", detect_operation(s)), "numbers", FindAll(NumberRe, s))
      [] intent = "weather" -> LocationOf(FirstGroup1(location_patterns, s, 1), s)
      [] intent = "book_flight" ->
            WithDate(PutMatch(EmptyDict, << <<"origin", 1>>, <<"destination", 2>> >>,
                              Search(from_to_pattern, s)), s)
      [] intent = "send_email" ->
            PutMatch(PutFirst(EmptyDict, "recipient", FindAll(email_pattern, s)),
                     << <<"subject", 1>> >>, Search(subject_pattern, s))
      [] intent = "search" -> Put(EmptyDict, "query", QueryAfter(s, 1))
      [] intent = "schedule_meeting" ->
            WithDate(PutMatch(EmptyDict, << <<"participants", 1>> >>, Search(with_pattern, s)), s)
      [] OTHER -> EmptyDict

-----------------------------------------------------------------------------
(* _extract_info_from_match                                                *)

\* numbers.extend(re.findall(..., group.strip())) over the groups that are set
RECURSIVE NumbersOfGroups(_, _)
NumbersOfGroups(groups, j) ==
    IF j > Len(groups) THEN <<>>
    ELSE (IF groups[j].some /\ Truthy(groups[j].s)
          THEN FindAll(NumberRe, Strip(groups[j].s)) ELSE <<>>)
         \o NumbersOfGroups(groups, j + 1)

\* extracted[key] = groups[i].strip() if groups[i] else "", for each <<key, i>> of slots
RECURSIVE PutGroups(_, _, _, _)
PutGroups(extracted, groups, slots, j) ==
    IF j > Len(slots) THEN Ret(extracted)
    ELSE LET g == GroupAt(groups, slots[j][2])
         IN IF IsRaise(g) THEN g
            ELSE PutGroups(Put(extracted, slots[j][1], StripOrEmpty(g.ret)), groups, slots, j + 1)

extract_info_from_match(intent, groups, s) ==
    CASE intent = "calculate" ->
            IF Len(groups) >= 2 /\ groups[2].some /\ Truthy(groups[2].s)
            THEN Ret(Put(Put(EmptyDict, "operation", detect_operation(s)),
                         "numbers", NumbersOfGroups(groups, 1)))
            ELSE LET g == GroupAt(groups, 1)
                     text == IF g.ret.some /\ Truthy(g.ret.s) THEN g.ret.s ELSE ""
                 IN IF IsRaise(g) THEN g
                    ELSE IF Contains(Lower(s), "square root") \/ Contains(Lower(s), "sqrt")
                    THEN Ret(Put(Put(EmptyDict, "operation", "sqrt"), "numbers", FindAll(NumberRe, text)))
                    ELSE Ret(parse_calculation(text))
      [] intent = "weather" -> PutGroups(EmptyDict, groups, << <<"location", 1>> >>, 1)
      [] intent = "book_flight" ->
            IF Len(groups) >= 3
            THEN PutGroups(EmptyDict, groups, << <<"origin", 1>>, <<"destination", 2>>, <<"date", 3>> >>, 1)
            ELSE IF Len(groups) >= 2
            THEN PutGroups(EmptyDict, groups, << <<"origin", 1>>, <<"destination", 2>> >>, 1)
            ELSE Ret(EmptyDict)
      [] intent = "send_email" ->
            PutGroups(EmptyDict, groups, << <<"recipient", 1>>, <<"subject", 2>> >>, 1)
      [] intent = "search" -> PutGroups(EmptyDict, groups, << <<"query", 1>> >>, 1)
      [] intent = "schedule_meeting" ->
            PutGroups(EmptyDict, groups, << <<"participants", 1>>, <<"date", 2>> >>, 1)
      [] OTHER -> Ret(EmptyDict)

-----------------------------------------------------------------------------
(* _detect_intent_by_keywords.  Scores are counted in halves: a substring  *)
(* hit adds 2 (the code's 1), a whole-word hit 1 more (the code's 0.5).    *)

RECURSIVE KeywordScore(_, _, _, _)
KeywordScore(keywords, s, words, j) ==
    IF j > Len(keywords) THEN 0
    ELSE (IF Contains(s, keywords[j])
          THEN 2 + (IF InList(keywords[j], words) THEN 1 ELSE 0)
          ELSE 0)
         + KeywordScore(keywords, s, words, j + 1)

intent_scores(s) ==
    [i \in 1..Len(intent_keywords) |->
        <<intent_keywords[i][1], KeywordScore(intent_keywords[i][2], s, Split(s), 1)>>]

\* a maximum that keeps the last key with the greatest value
LastMaxKey(d) == d[CHOOSE i \in 1..Len(d) : \A j \in 1..Len(d) : d[j][2] <= d[i][2] /\ (j > i => d[j][2] < d[i][2])][1]

\* max(d, key=d.get): the first key, in insertion order, with the greatest value
MaxKey(d) ==
    d[CHOOSE i \in 1..Len(d) :
        /\ \A j \in 1..Len(d) : d[j][2] <= d[i][2]
        /\ \A j \in 1..(i - 1) : d[j][2] < d[i][2]][1]

\* the keyword vote without its `> 0` test: the best-scoring intent even at score 0
DetectIntentAnyScore(s) ==
    LET scores == intent_scores(s)
    IN IF Len(scores) > 0 /\ Get(scores, MaxKey(scores)) >= 0
       THEN [some |-> TRUE, intent |-> MaxKey(scores)]
       ELSE [some |-> FALSE, intent |-> ""]

\* None is [some |-> FALSE]
detect_intent_by_keywords(s) ==
    LET scores == intent_scores(s)
    IN IF Len(scores) > 0 /\ Get(scores, MaxKey(scores)) > 0
       THEN [some |-> TRUE, intent |-> MaxKey(scores)]
       ELSE [some |-> FALSE, intent |-> ""]

-----------------------------------------------------------------------------
(* parse_intent                                                            *)

\* the pattern table flattened in iteration order: <<intent, pattern>> pairs
RECURSIVE Flatten(_, _)
Flatten(table, i) ==
    IF i > Len(table) THEN <<>>
    ELSE [j \in 1..Len(table[i][2]) |-> <<table[i][1], table[i][2][j]>>] \o Flatten(table, i + 1)

\* the match of the j-th pair: its intent and the groups
MatchedPair(pairs, j, m) == [ok |-> TRUE, intent |-> pairs[j][1], groups |-> Groups(m), at |-> j]

\* the pairs of the table that re.search matches
Matching(pairs, s) == {j \in 1..Len(pairs) : Search(pairs[j][2], s).ok}

\* the j-th pair of the table with what re.search gives for it
PatternAt(pairs, s, j) == MatchedPair(pairs, j, Search(pairs[j][2], s))

\* the last of the matching pairs
LastOf(pairs, s, matching) ==
    IF matching = {} THEN [ok |-> FALSE] ELSE PatternAt(pairs, s, Greatest(matching))

\* the two loops without the early return: the last matching pair wins
LastPatternMatch(pairs, s) == LastOf(pairs, s, Matching(pairs, s))

\* the first of the matching pairs
FirstOf(pairs, s, matching) ==
    IF matching = {} THEN [ok |-> FALSE] ELSE PatternAt(pairs, s, Least(matching))

\* lines 119-122, the two nested for loops with their early return: the first
\* pair, in iteration order, that re.search matches ends the loops
FirstPatternMatch(pairs, s) == FirstOf(pairs, s, Matching(pairs, s))

\* normalization that forgets .lower()
StripOnly(raw) == Strip(raw)

Normalize(raw) == Strip(Lower(raw))

IntentResult(intent, confidence, extracted, s, method) ==
    [intent |-> intent, confidence |-> confidence, extracted_info |-> extracted,
     raw_input |-> s, detection_method |-> method]

\* lines 123-131: the result by pattern, ex being what the extraction gave or raised
PatternResult(intent, ex, s) ==
    IF IsRaise(ex) THEN ex ELSE Ret(IntentResult(intent, "0.9", ex.ret, s, "pattern"))

\* lines 135-153, kw being what _detect_intent_by_keywords returned
KeywordResult(kw, s) ==
    IF kw.some
    THEN Ret(IntentResult(kw.intent, "0.7", extract_info_by_keywords(kw.intent, s), s, "keywords"))
    ELSE Ret(IntentResult("search", "0.3", Put(EmptyDict, "query", s), s, "default"))

\* lines 122-153, pm being the outcome of the pattern loops
ParseMatched(pm, s) ==
    IF pm.ok THEN PatternResult(pm.intent, extract_info_from_match(pm.intent, pm.groups, s), s)
    ELSE KeywordResult(detect_intent_by_keywords(s), s)

\* lines 119-153 on the normalized utterance
ParseNormalized(s) == ParseMatched(FirstPatternMatch(Flatten(intent_patterns, 1), s), s)

parse_intent(raw) == ParseNormalized(Normalize(raw))

-----------------------------------------------------------------------------
(* Python floats.  A finite float is the exact rational n/d in lowest      *)
(* terms; inf and nan are values of their own.  The model covers decimal   *)
(* literals and the words inf, infinity and nan (no exponent notation, no  *)
(* negative zero), results that need no more than 32-bit numerators, and   *)
(* powers that are exact or overflow; outside that an operator evaluates   *)
(* to Unmodelled, which stops the model checker.                           *)

Unmodelled == CHOOSE x \in {} : TRUE

Abs(n) == IF n < 0 THEN -n ELSE n
Sign(n) == IF n < 0 THEN -1 ELSE IF n > 0 THEN 1 ELSE 0

RECURSIVE Gcd(_, _)
Gcd(a, b) == IF b = 0 THEN a ELSE Gcd(b, a % b)

Frac(n, d) ==
    LET g == Gcd(Abs(n), Abs(d))
        sg == IF d < 0 THEN -1 ELSE 1
    IN [k |-> "fin", n |-> sg * (n \div g), d |-> sg * (d \div g)]

FInt(n) == [k |-> "fin", n |-> n, d |-> 1]
FInf(sg) == [k |-> "inf", n |-> sg, d |-> 1]
FNan == [k |-> "nan", n |-> 0, d |-> 1]

IsFin(x) == x.k = "fin"
IsZero(x) == IsFin(x) /\ x.n = 0
IsIntegral(x) == IsFin(x) /\ x.d = 1

\* x == y on floats: nan equals nothing
FEq(x, y) == x.k # "nan" /\ y.k # "nan" /\ x = y
\* x < 0
FNeg(x) == x.k # "nan" /\ x.n < 0

FMinus(x) == [x EXCEPT !.n = -@]

FAdd(x, y) ==
    IF x.k = "nan" \/ y.k = "nan" THEN FNan
    ELSE IF x.k = "inf" /\ y.k = "inf" THEN (IF x.n = y.n THEN x ELSE FNan)
    ELSE IF x.k = "inf" THEN x
    ELSE IF y.k = "inf" THEN y
    ELSE Frac(x.n * y.d + y.n * x.d, x.d * y.d)

FSub(x, y) == FAdd(x, FMinus(y))

FMul(x, y) ==
    IF x.k = "nan" \/ y.k = "nan" THEN FNan
    ELSE IF x.k = "inf" \/ y.k = "inf"
    THEN (IF x.n = 0 \/ y.n = 0 THEN FNan ELSE FInf(Sign(x.n) * Sign(y.n)))
    ELSE Frac(x.n * y.n, x.d * y.d)

\* x / y, which raises ZeroDivisionError on a zero divisor
FDiv(x, y) ==
    IF IsZero(y) THEN Raise("ZeroDivisionError", "float division by zero")
    ELSE IF x.k = "nan" \/ y.k = "nan" THEN Ret(FNan)
    ELSE IF x.k = "inf" /\ y.k = "inf" THEN Ret(FNan)
    ELSE IF x.k = "inf" THEN Ret(FInf(Sign(x.n) * Sign(y.n)))
    ELSE IF y.k = "inf" THEN Ret(FInt(0))
    ELSE Ret(Frac(x.n * y.d, x.d * y.n))

\* int(x): truncation towards zero
FTrunc(x) ==
    IF x.k = "complex"
    THEN Raise("TypeError", "int() argument must be a string, a bytes-like object or a real number, not 'complex'")
    ELSE IF x.k = "nan" THEN Raise("ValueError", "cannot convert float NaN to integer")
    ELSE IF x.k = "inf" THEN Raise("OverflowError", "cannot convert float infinity to integer")
    ELSE Ret(Sign(x.n) * (Abs(x.n) \div x.d))

\* sys.float_info.max_exp and max_10_exp + 1: 2^1024 and 10^309 exceed the largest float
FloatMaxExp == 1024
FloatMax10Exp == 309
RECURSIVE FloorLog(_, _)
\* the greatest j with b^j <= n, for n >= 1
FloorLog(n, b) == IF n < b THEN 0 ELSE 1 + FloorLog(n \div b, b)

RECURSIVE IntPow(_, _)
IntPow(n, e) == IF e = 0 THEN 1 ELSE n * IntPow(n, e - 1)

RECURSIVE ISqrt(_, _)
\* the integer root of n when n is a perfect square, else -1
ISqrt(n, r) == IF r * r = n THEN r ELSE IF r * r > n THEN -1 ELSE ISqrt(n, r + 1)

\* whether |n|^e and d^e are numbers of at most thirty bits
FitsPow(x, e) ==
    LET m == IF Abs(x.n) > x.d THEN Abs(x.n) ELSE x.d
    IN m = 1 \/ x.n = 0 \/ e * (FloorLog(m, 2) + 1) <= 30

\* x ** y for a finite x and an integral y >= 0: OverflowError once the result
\* is at least 2^1024 or 10^309, the exact power when it is small
PowNat(x, e) ==
    LET a == Abs(x.n) \div x.d
    IN IF a >= 2 /\ (e * FloorLog(a, 2) >= FloatMaxExp \/ e * FloorLog(a, 10) >= FloatMax10Exp)
       THEN Raise("OverflowError", "(34, 'Numerical result out of range')")
       ELSE IF FitsPow(x, e) THEN Ret(Frac(IntPow(x.n, e), IntPow(x.d, e)))
       ELSE Unmodelled

\* x ** y
FPow(x, y) ==
    IF IsZero(y) THEN Ret(FInt(1))
    ELSE IF x = FInt(1) THEN Ret(FInt(1))
    ELSE IF x.k = "nan" \/ y.k = "nan" THEN Ret(FNan)
    ELSE IF IsFin(x) /\ IsIntegral(y) /\ y.n > 0 THEN PowNat(x, y.n)
    ELSE IF IsFin(x) /\ IsIntegral(y) /\ y.n < 0
    THEN (IF IsZero(x) THEN Raise("ZeroDivisionError", "0.0 cannot be raised to a negative power")
          ELSE LET r == PowNat(x, -y.n)
               IN IF IsRaise(r) THEN Unmodelled ELSE FDiv(FInt(1), r.ret))
    ELSE IF IsFin(x) /\ y = Frac(1, 2)
    THEN (IF x.n < 0 THEN Ret([k |-> "complex", n |-> 0, d |-> 1])
          ELSE LET rn == ISqrt(x.n, 0)
                   rd == ISqrt(x.d, 1)
               IN IF rn >= 0 /\ rd >= 0 THEN Ret(Frac(rn, rd)) ELSE Unmodelled)
    ELSE IF x.k = "inf" /\ x.n > 0 /\ y.k # "nan"
    THEN (IF y.n > 0 THEN Ret(FInf(1)) ELSE Ret(FInt(0)))
    ELSE IF IsFin(x) /\ y.k = "inf" /\ Abs(x.n) # x.d
    THEN (IF (Abs(x.n) > x.d) = (y.n > 0) THEN Ret(FInf(1)) ELSE Ret(FInt(0)))
    ELSE Unmodelled

-----------------------------------------------------------------------------
(* float(str), str(float), str(int) and round(x, 6)                        *)

IntStr(n) == ToString(n)

RECURSIVE DigitsToInt(_, _, _)
DigitsToInt(s, i, acc) ==
    IF i > Len(s) THEN acc
    ELSE DigitsToInt(s, i + 1, acc * 10 + (IndexIn(Digits, Char(s, i)) - 1))

AllDigits(s) == \A i \in 1..Len(s) : Char(s, i) \in DigitSet

RECURSIVE LeadingZeros(_, _)
LeadingZeros(s, i) == IF i <= Len(s) /\ Char(s, i) = "0" THEN 1 + LeadingZeros(s, i + 1) ELSE 0

\* float(text): a decimal literal, inf, infinity or nan, with an optional
\* sign and surrounding white space; anything else raises ValueError.  A
\* literal of 10^309 or more is inf
ParseDecimal(text, sg, ip, fp) ==
    IF AllDigits(ip) /\ AllDigits(fp) /\ Len(ip) - LeadingZeros(ip, 1) > FloatMax10Exp
    THEN Ret(FInf(sg))
    ELSE IF AllDigits(ip) /\ AllDigits(fp) /\ Len(ip) + Len(fp) > 0
    THEN Ret(Frac(sg * DigitsToInt(ip \o fp, 1, 0), IntPow(10, Len(fp))))
    ELSE Raise("ValueError", "could not convert string to float: '" \o text \o "'")

\* the literal after its sign: body, in lower case low, with its first dot at dot
ParseUnsigned(text, sg, body, low, dot) ==
    IF low \in {"inf", "infinity"} THEN Ret(FInf(sg))
    ELSE IF low = "nan" THEN Ret(FNan)
    ELSE ParseDecimal(text, sg, IF dot = 0 THEN body ELSE SubSeq(body, 1, dot - 1),
                      IF dot = 0 THEN "" ELSE SubSeq(body, dot + 1, Len(body)))

ParseSigned(text, sg, body) == ParseUnsigned(text, sg, body, Lower(body), Find(body, "."))

ParseStripped(text, s) ==
    IF Len(s) > 0 /\ Char(s, 1) \in {"+", "-"}
    THEN ParseSigned(text, IF Char(s, 1) = "-" THEN -1 ELSE 1, SubSeq(s, 2, Len(s)))
    ELSE ParseSigned(text, 1, s)

ParseFloat(text) == ParseStripped(text, Strip(text))

RECURSIVE FracDigits(_, _)
\* the decimal digits of r/d, 0 <= r < d, d a divisor of a power of ten
FracDigits(r, d) ==
    IF r = 0 THEN "" ELSE IntStr((r * 10) \div d) \o FracDigits((r * 10) % d, d)

IsDecimal(d) == LET RECURSIVE Strip25(_)
                    Strip25(m) == IF m % 2 = 0 THEN Strip25(m \div 2)
                                  ELSE IF m % 5 = 0 THEN Strip25(m \div 5) ELSE m
                IN Strip25(d) = 1

\* the digits d.ddd of a significand and its exponent e-NN
Scientific(sg, sig, ex) ==
    sg \o Char(sig, 1) \o (IF Len(sig) > 1 THEN "." \o SubSeq(sig, 2, Len(sig)) ELSE "")
    \o "e-" \o (IF ex < 10 THEN "0" ELSE "") \o IntStr(ex)

\* repr of a fraction with z zeros leading its decimals fd: scientific below 1e-4
FloatDigits(sg, ip, d, fd, z) ==
    IF d = 1 THEN sg \o IntStr(ip) \o ".0"
    ELSE IF ip = 0 /\ z >= 4 THEN Scientific(sg, SubSeq(fd, z + 1, Len(fd)), z + 1)
    ELSE sg \o IntStr(ip) \o "." \o fd

FloatText(sg, ip, d, fd) == FloatDigits(sg, ip, d, fd, LeadingZeros(fd, 1))

\* str(x) for a float x: the shortest decimal that reads back as x
FloatStr(x) ==
    IF x.k = "nan" THEN "nan"
    ELSE IF x.k = "inf" THEN (IF x.n < 0 THEN "-inf" ELSE "inf")
    ELSE IF ~IsDecimal(x.d) THEN Unmodelled
    ELSE FloatText(IF x.n < 0 THEN "-" ELSE "", Abs(x.n) \div x.d, x.d,
                   FracDigits(Abs(x.n) % x.d, x.d))

RoundPlaces == 6

RECURSIVE LongDiv(_, _, _, _)
\* `places` more digits of r/d after the digits already in acc: <<digits, remainder>>
LongDiv(r, d, places, acc) ==
    IF places = 0 THEN <<acc, r>>
    ELSE LongDiv((r * 10) % d, d, places - 1, acc * 10 + ((r * 10) \div d))

\* x rounded to a multiple of 1/scale, to the nearest and ties to even, ld being
\* the digits of its fraction and what the long division left
RoundHalfEven(x, ld, scale) ==
    Frac(Sign(x.n) * ((Abs(x.n) \div x.d) * scale + ld[1]
                      + (IF 2 * ld[2] > x.d \/ (2 * ld[2] = x.d /\ ld[1] % 2 = 1) THEN 1 ELSE 0)),
         scale)

\* round(x, 6) for a finite x
Round6(x) ==
    RoundHalfEven(x, LongDiv(Abs(x.n) % x.d, x.d, RoundPlaces, 0), IntPow(10, RoundPlaces))

-----------------------------------------------------------------------------
(* _calculate_result and _call_calculator_api.  The signs the code prints  *)
(* as U+00D7, U+00F7 and U+221A are written "x", "/" and "sqrt".           *)

TimesSign == "x"
DivideSign == "/"
SqrtSign == "sqrt"

MaxNumbers == 10

DictGet(d, key, default) == IF key \in DOMAIN d THEN d[key] ELSE default

\* the conversion loop: the floats, or the first string float() rejects
RECURSIVE ToFloats(_, _, _)
ToFloats(numbers, j, acc) ==
    IF j > Len(numbers) THEN [ok |-> TRUE, floats |-> acc]
    ELSE IF IsRaise(ParseFloat(numbers[j])) THEN [ok |-> FALSE, num_str |-> numbers[j]]
    ELSE ToFloats(numbers, j + 1, Append(acc, ParseFloat(numbers[j]).ret))

\* a sum that stops after its first term
SumOfFirst(xs, j, acc) == IF j > Len(xs) THEN acc ELSE FAdd(acc, xs[j])

RECURSIVE SumFrom(_, _, _)
\* sum(xs[j:]) started from acc
SumFrom(xs, j, acc) == IF j > Len(xs) THEN acc ELSE SumFrom(xs, j + 1, FAdd(acc, xs[j]))

RECURSIVE ProductFrom(_, _, _)
ProductFrom(xs, j, acc) == IF j > Len(xs) THEN acc ELSE ProductFrom(xs, j + 1, FMul(acc, xs[j]))

\* a division by the last operand alone
DivideByLast(xs, j, acc) == IF j > Len(xs) THEN Ret(acc) ELSE FDiv(acc, xs[Len(xs)])

RECURSIVE DivideFrom(_, _, _)
\* result /= num for num in xs[j:]
DivideFrom(xs, j, acc) ==
    IF j > Len(xs) THEN Ret(acc)
    ELSE IF IsRaise(FDiv(acc, xs[j])) THEN FDiv(acc, xs[j])
    ELSE DivideFrom(xs, j + 1, FDiv(acc, xs[j]).ret)

RECURSIVE Join(_, _, _)
\* sep.join(map(str, xs))
Join(xs, sep, j) ==
    IF j > Len(xs) THEN ""
    ELSE FloatStr(xs[j]) \o (IF j < Len(xs) THEN sep ELSE "") \o Join(xs, sep, j + 1)

\* `0 in xs`, the first operand included
ZeroInAny(xs) == \E j \in 1..Len(xs) : FEq(xs[j], FInt(0))

\* `0 in xs[1:]`
ZeroInRest(xs) == \E j \in 2..Len(xs) : FEq(xs[j], FInt(0))

\* the expression without the square-root branch: the operands joined by the sign
ExpressionJoined(operation, symbol, xs) == Join(xs, " " \o symbol \o " ", 1)

\* lines 650-654: the operands joined by the sign, or the sign and the operand
Expression(operation, symbol, xs) ==
    IF operation = "sqrt" THEN symbol \o "(" \o FloatStr(xs[1]) \o ")"
    ELSE Join(xs, " " \o symbol \o " ", 1)

\* the formatting without the whole-number branch: always round(result, 6)
FormatAlwaysRounded(operation, symbol, xs, res) ==
    IF res.k = "complex" THEN Raise("TypeError", "type complex doesn't define __round__ method")
    ELSE Ret(Expression(operation, symbol, xs) \o " = "
             \o FloatStr(IF IsFin(res) THEN Round6(res) ELSE res))

\* lines 657-662, tr being int(result) or what it raised
FormatTruncated(operation, symbol, xs, res, tr) ==
    IF IsRaise(tr) THEN tr
    ELSE Ret(Expression(operation, symbol, xs) \o " = "
             \o (IF FEq(res, FInt(tr.ret)) THEN IntStr(tr.ret) ELSE FloatStr(Round6(res))))

\* lines 649-662: the expression, then the result as an int or rounded
FormatResult(operation, symbol, xs, res) ==
    FormatTruncated(operation, symbol, xs, res, FTrunc(res))

\* lines 649-662 after an operation that can raise: r is its result or what it raised
FormatOrRaise(operation, symbol, xs, r) ==
    IF IsRaise(r) THEN r ELSE FormatResult(operation, symbol, xs, r.ret)

\* lines 616-662 on the floats xs
ComputeOn(operation, xs) ==
    CASE operation = "add" -> FormatResult(operation, "+", xs, SumFrom(xs, 1, FInt(0)))
      [] operation = "subtract" ->
            FormatResult(operation, "-", xs, FSub(xs[1], SumFrom(xs, 2, FInt(0))))
      [] operation = "multiply" ->
            FormatResult(operation, TimesSign, xs, ProductFrom(xs, 1, FInt(1)))
      [] operation = "divide" ->
            IF ZeroInRest(xs) THEN Ret("Error: Cannot divide by zero")
            ELSE FormatOrRaise(operation, DivideSign, xs, DivideFrom(xs, 2, xs[1]))
      [] operation = "power" ->
            IF Len(xs) # 2 THEN Ret("Error: Power operation requires exactly two numbers")
            ELSE FormatOrRaise(operation, "^", xs, FPow(xs[1], xs[2]))
      [] operation = "sqrt" ->
            IF Len(xs) # 1 THEN Ret("Error: Square root operation requires exactly one number")
            ELSE IF FNeg(xs[1]) THEN Ret("Error: Cannot calculate square root of negative number")
            ELSE FormatOrRaise(operation, SqrtSign, xs, FPow(xs[1], Frac(1, 2)))
      [] OTHER -> Ret("Error: Unknown operation '" \o operation
                      \o "'. Supported operations: add, subtract, multiply, divide, power, sqrt")

\* lines 608-662, cv being what the conversion loop gave
ComputeConverted(operation, cv) ==
    IF ~cv.ok THEN Ret("Error: '" \o cv.num_str \o "' is not a valid number")
    ELSE ComputeOn(operation, cv.floats)

\* the body of the try block, lines 607-662: Ret(text) or the exception raised
Compute(operation, numbers) == ComputeConverted(operation, ToFloats(numbers, 1, <<>>))

\* the try block without its except clauses: the exception leaves _calculate_result
PropagateCompute(r) == r

\* the two except clauses of _calculate_result, lines 664-667
CatchCompute(r) ==
    IF ~IsRaise(r) THEN r
    ELSE IF r.exc = "OverflowError" THEN Ret("Error: Calculation result is too large")
    ELSE Ret("Error: Calculation failed - " \o r.msg)

\* the evaluator without its checks of the operand count
CalculateUncounted(operation, numbers) ==
    IF ~Truthy(numbers) THEN Ret("Error: No numbers provided for calculation")
    ELSE CatchCompute(Compute(operation, numbers))

\* lines 591-667 on the operation and the numbers
Calculate(operation, numbers) ==
    IF ~Truthy(numbers) THEN Ret("Error: No numbers provided for calculation")
    ELSE IF operation = "sqrt" /\ Len(numbers) < 1
    THEN Ret("Error: Square root operation requires at least one number")
    ELSE IF operation # "sqrt" /\ Len(numbers) < 2
    THEN Ret("Error: Need at least two numbers for calculation")
    ELSE IF Len(numbers) > MaxNumbers THEN Ret("Error: Too many numbers provided (maximum 10)")
    ELSE CatchCompute(Compute(operation, numbers))

calculate_result(data) ==
    Calculate(DictGet(data, "operation", "add"), DictGet(data, "numbers", <<>>))

\* lines 557-584, r being what _calculate_result returned or raised
CalculatorResponse(data, r) ==
    IF IsRaise(r)
    THEN [type |-> "api_response", endpoint |-> "calculator",
          result |-> "Error: Calculator API failed - " \o r.msg,
          status |-> "error", error_type |-> "api_error", data |-> data]
    ELSE IF StartsWith(r.ret, "Error:")
    THEN [type |-> "api_response", endpoint |-> "calculator", result |-> r.ret,
          status |-> "error", error_type |-> "calculation_error", data |-> data]
    ELSE [type |-> "api_response", endpoint |-> "calculator", result |-> r.ret,
          status |-> "success", data |-> data]

call_calculator_api(data) == CalculatorResponse(data, calculate_result(data))

-----------------------------------------------------------------------------
(* check_missing_info, decide_action and the messages                      *)

\* the loop leaving at the first missing field
RECURSIVE MissingStopAtFirst(_, _, _)
MissingStopAtFirst(required, extracted_info, j) ==
    IF j > Len(required) THEN <<>>
    ELSE IF required[j] \notin DOMAIN extracted_info \/ ~Truthy(extracted_info[required[j]])
    THEN <<required[j]>>
    ELSE MissingStopAtFirst(required, extracted_info, j + 1)

\* the loop of check_missing_info over the required fields from the j-th on
RECURSIVE MissingFrom(_, _, _)
MissingFrom(required, extracted_info, j) ==
    IF j > Len(required) THEN <<>>
    ELSE (IF required[j] \notin DOMAIN extracted_info \/ ~Truthy(extracted_info[required[j]])
          THEN <<required[j]>> ELSE <<>>)
         \o MissingFrom(required, extracted_info, j + 1)

\* the check with `field not in extracted_info` alone, empty values passing
CheckMissingKeysOnly(intent, extracted_info) ==
    IF ~HasKey(required_fields, intent) THEN <<>>
    ELSE LET required == Get(required_fields, intent)
         IN SelectSeq(required, LAMBDA f : f \notin DOMAIN extracted_info)

check_missing_info(intent, extracted_info) ==
    IF ~HasKey(required_fields, intent) THEN <<>>
    ELSE MissingFrom(Get(required_fields, intent), extracted_info, 1)

intent_messages ==
    << <<"calculate", "I need to know what numbers you want to calculate with.">>,
       <<"weather", "I need to know which location you want weather information for.">>,
       <<"book_flight", "I need the origin, destination, and date for your flight.">>,
       <<"send_email", "I need the recipient and subject for your email.">>,
       <<"search", "I need to know what you want to search for.">>,
       <<"schedule_meeting", "I need to know who to meet with and when.">> >>

field_messages ==
    << <<"operation", "What operation would you like to perform? (add, subtract, multiply, divide)">>,
       <<"numbers", "What numbers would you like to calculate with?">>,
       <<"location", "Which location would you like weather information for?">>,
       <<"origin", "Where are you departing from?">>,
       <<"destination", "Where are you traveling to?">>,
       <<"date", "What date would you like?">>,
       <<"recipient", "Who should I send the email to?">>,
       <<"subject", "What should the email subject be?">>,
       <<"message", "What message would you like to send?">>,
       <<"query", "What would you like to search for?">>,
       <<"participants", "Who should attend the meeting?">>,
       <<"duration", "How long should the meeting be?">> >>

\* dict.get(key, default) on a table
GetOr(d, key, default) == IF HasKey(d, key) THEN Get(d, key) ELSE default

\* a message that asks about the first missing field however many are missing
MessageWithFirstField(intent, missing_fields) ==
    GetOr(intent_messages, intent, "I need more information to help you.")
    \o (IF Len(missing_fields) >= 1
        THEN " " \o GetOr(field_messages, missing_fields[1],
                          "Please provide " \o missing_fields[1] \o ".")
        ELSE "")

generate_missing_info_message(intent, missing_fields) ==
    LET base_message == GetOr(intent_messages, intent, "I need more information to help you.")
    IN IF Len(missing_fields) = 1
       THEN base_message \o " "
            \o GetOr(field_messages, missing_fields[1], "Please provide " \o missing_fields[1] \o ".")
       ELSE base_message

generate_direct_answer(intent, data) ==
    IF intent = "search"
    THEN "I'll search for information about '" \o DictGet(data, "query", "") \o "' for you."
    ELSE "I understand you want to " \o intent \o ". Let me help you with that."

ASK_FOR_INFO == "ask_for_info"
CALL_API == "call_api"
ANSWER_DIRECTLY == "answer_directly"

\* the rules with the endpoint looked up before the missing fields
DecideEndpointFirst(intent, missing, extracted_info) ==
    IF HasKey(api_endpoints, intent)
    THEN [type |-> "call_api",
          data |-> [endpoint |-> Get(api_endpoints, intent), intent |-> intent,
                    data |-> extracted_info]]
    ELSE IF Truthy(missing)
    THEN [type |-> "ask_for_info",
          data |-> [missing_fields |-> missing, intent |-> intent,
                    message |-> generate_missing_info_message(intent, missing)]]
    ELSE [type |-> "answer_directly",
          data |-> [intent |-> intent, data |-> extracted_info,
                    message |-> generate_direct_answer(intent, extracted_info)]]

\* the pair (action_type, action_data)
decide_action(intent, missing, extracted_info) ==
    IF Truthy(missing)
    THEN [type |-> ASK_FOR_INFO,
          data |-> [missing_fields |-> missing, intent |-> intent,
                    message |-> generate_missing_info_message(intent, missing)]]
    ELSE IF HasKey(api_endpoints, intent)
    THEN [type |-> CALL_API,
          data |-> [endpoint |-> Get(api_endpoints, intent), intent |-> intent,
                    data |-> extracted_info]]
    ELSE [type |-> ANSWER_DIRECTLY,
          data |-> [intent |-> intent, data |-> extracted_info,
                    message |-> generate_direct_answer(intent, extracted_info)]]

-----------------------------------------------------------------------------
(* execute_action and _call_api                                            *)

\* f"{data.get(key)}": the value, or the text None
StrGet(data, key) == DictGet(data, key, "None")

\* a stub that reports an error without its kind
ApiResponseFailed(endpoint, text) ==
    [type |-> "api_response", endpoint |-> endpoint, result |-> text, status |-> "error"]

ApiResponse(endpoint, text) ==
    [type |-> "api_response", endpoint |-> endpoint, result |-> text, status |-> "success"]

call_api(endpoint, data) ==
    CASE endpoint = "calculator_api" -> call_calculator_api(data)
      [] endpoint = "weather_api" ->
            ApiResponse("weather", "Weather information for " \o DictGet(data, "location", "unknown location"))
      [] endpoint = "flight_booking_api" ->
            ApiResponse("flight_booking", "Flight booked from " \o StrGet(data, "origin") \o " to "
                                          \o StrGet(data, "destination") \o " on " \o StrGet(data, "date"))
      [] endpoint = "email_api" ->
            ApiResponse("email", "Email sent to " \o StrGet(data, "recipient") \o " with subject: "
                                 \o StrGet(data, "subject"))
      [] endpoint = "search_api" ->
            ApiResponse("search", "Search results for: " \o StrGet(data, "query"))
      [] endpoint = "calendar_api" ->
            ApiResponse("calendar", "Meeting scheduled with " \o StrGet(data, "participants")
                                    \o " on " \o StrGet(data, "date"))
      [] OTHER -> ApiResponse(endpoint, "API call completed")

execute_action(action_type, action_data) ==
    CASE action_type = ASK_FOR_INFO ->
            [type |-> "ask_for_info", response |-> action_data.message,
             missing_fields |-> action_data.missing_fields, intent |-> action_data.intent]
      [] action_type = CALL_API -> call_api(action_data.endpoint, action_data.data)
      [] action_type = ANSWER_DIRECTLY ->
            [type |-> "direct_answer", response |-> action_data.message, intent |-> action_data.intent]

-----------------------------------------------------------------------------
(* process_input, one step per statement, and the inputs of the model.     *)

None == "None"

\* no response kept, no direct call made
NoValue == [some |-> FALSE]
NoCall == [fn |-> None]

MaxWords == 2

Vocabulary == <<"what is", "weather", "flight", "5 plus 5">>

RECURSIVE WordSeqs(_)
\* the utterances of at most n vocabulary words, joined by single spaces
WordSeqs(n) ==
    IF n = 0 THEN {""}
    ELSE LET shorter == WordSeqs(n - 1)
         IN shorter \cup {IF u = "" THEN Vocabulary[w] ELSE u \o " " \o Vocabulary[w] :
                            u \in shorter, w \in 1..Len(Vocabulary)}

\* the utterances of the repository's tests and demos, and some near them
Scripted ==
    { "calculate 15 plus 27", "divide 10 by 0", "calculate something", "square root of 16",
      "square root of -4", "calculate abc plus def", "search for Python tutorials",
      "what's the weather", "what's the weather in New York", "book a flight", "send an email",
      "what is 15 plus 27", "weather in new york", "send email to john@example.com about meeting",
      "calculate 10 times 5", "book flight from london to paris",
      "schedule meeting with team on friday", "from kualalumpur to kochi on july 1 2025",
      "calculate 20 divided by 4", "calculate 10 divided by 0", "calculate 5",
      "book a flight from London to Paris on December 15th", "tell me about machine learning",
      "hello there", "calculate", "", "   ", "power 10 to 309", "power 2 to 10", "what is 10 times 5",
      "add 25 and 15", "calculate 5 power 3", "multiply 2 3 4 5", "sum of 10 20 30 40",
      "what is 5", "power 5", "calculate 1 2 3 4 5 6 7 8 9 10 11",
      "calculate 5 invalid_operation 3", "root of 16", "divide 0 by 5", "divide 7 by 2",
      "divide 1 by 3", "  Calculate 15 PLUS 27 ", "CALCULATE 15 plus 27", "Weather In PARIS",
      "weather in paris", "what's 50 minus 12", "compute 100 divided by 4",
      "meet with bob on 12/25/2025", "email bob regarding lunch", "weather",
      "rain today in London", "meeting with Ann on july 4 2025 please",
      "what is weather 5 plus 5", "flight what is weather", "5 plus 5 flight weather",
      "cold call", "mailing call", "radical of 16", "sqrt of 9", "calculate 2 raised to 3",
      "total of 5 and radical 9", "john@example.com inbox about lunch",
      "calendar with bob on 12/25/2025", "sunny Paris today", "search", "Rain at Paris",
      "cloudy in   5", "inbox subject lunch", "airport date 1/2/2025" }

Utterances == Scripted \cup WordSeqs(MaxWords)

Init ==
    /\ required_fields = RequiredFields
    /\ api_endpoints = ApiEndpoints
    /\ intent_patterns = IntentPatterns
    /\ intent_keywords = IntentKeywords
    /\ pc = "idle"
    /\ user_input = None
    /\ intent_result = None
    /\ missing_info = None
    /\ action = None
    /\ result = None
    /\ response = None
    /\ last = NoValue
    /\ unit = NoCall

\* r is what parse_intent returned or raised: an exception leaves process_input
Parsed(r) ==
    IF IsRaise(r)
    THEN pc' = "raised" /\ intent_result' = r
    ELSE pc' = "parsed" /\ intent_result' = r.ret

\* process_input is called with u; step 1, intent_result = self.parse_intent(user_input)
ParseIntent(u) ==
    /\ pc = "idle"
    /\ unit.fn = None
    /\ Parsed(parse_intent(u))
    /\ user_input' = u
    /\ UNCHANGED <<tables, missing_info, action, result, response, last, unit>>

\* step 2, missing_info = self.check_missing_info(...)
CheckMissing ==
    /\ pc = "parsed"
    /\ missing_info' = check_missing_info(intent_result.intent, intent_result.extracted_info)
    /\ pc' = "checked"
    /\ UNCHANGED <<tables, user_input, intent_result, action, result, response, last, unit>>

\* step 3, action_type, action_data = self.decide_action(...)
DecideAction ==
    /\ pc = "checked"
    /\ action' = decide_action(intent_result.intent, missing_info, intent_result.extracted_info)
    /\ pc' = "decided"
    /\ UNCHANGED <<tables, user_input, intent_result, missing_info, result, response, last, unit>>

\* step 4, result = self.execute_action(action_type, action_data)
ExecuteAction ==
    /\ pc = "decided"
    /\ result' = execute_action(action.type, action.data)
    /\ pc' = "executed"
    /\ UNCHANGED <<tables, user_input, intent_result, missing_info, action, response, last, unit>>

\* the return statement: the locals go, the caller holds its argument and the value
Return ==
    /\ pc = "executed"
    /\ response' = [input |-> user_input, intent_analysis |-> intent_result,
                    missing_info |-> missing_info, action_taken |-> action.type,
                    result |-> result]
    /\ pc' = "returned"
    /\ intent_result' = None
    /\ missing_info' = None
    /\ action' = None
    /\ result' = None
    /\ UNCHANGED <<tables, user_input, last, unit>>

\* the caller is done with the value (or the exception) and may call again;
\* when `keep`, the value stays at hand for a comparison with the next call's
Resume(keep) ==
    /\ pc \in {"returned", "raised"}
    /\ pc' = "idle"
    /\ last' = IF keep /\ pc = "returned" THEN [some |-> TRUE, value |-> response] ELSE last
    /\ response' = None
    /\ user_input' = None
    /\ intent_result' = None
    /\ UNCHANGED <<tables, missing_info, action, result, unit>>

Next ==
    \/ \E u \in Utterances : ParseIntent(u)
    \/ CheckMissing
    \/ DecideAction
    \/ ExecuteAction
    \/ Return
    \/ Resume(FALSE)

Spec == Init /\ [][Next]_vars

-----------------------------------------------------------------------------
(* Direct calls of check_missing_info, decide_action and the calculator    *)
(* evaluator, one call at a time; `unit` holds the call and what it        *)
(* returned, with the arguments as they are after the call.                *)

\* what a slot of extracted_info can hold: nothing (0), or one of these
SlotValues == <<"", "paris", <<>>, <<"15", "27">>>>

UnknownIntent == "translate"

Intents == {RequiredFields[i][1] : i \in 1..Len(RequiredFields)} \cup {UnknownIntent}

SetOf(xs) == {xs[j] : j \in 1..Len(xs)}

\* the slots the calls fill: the intent's required fields and one more
FieldsOf(intent) ==
    (IF HasKey(RequiredFields, intent) THEN SetOf(Get(RequiredFields, intent)) ELSE {"query"})
    \cup {"note"}

SlotChoices(intent) == [FieldsOf(intent) -> 0..Len(SlotValues)]

SlotMap(intent, c) == [f \in {g \in FieldsOf(intent) : c[g] > 0} |-> SlotValues[c[f]]]

\* the lists of missing fields decide_action is called with
MissingLists(intent) ==
    LET required == IF HasKey(RequiredFields, intent) THEN Get(RequiredFields, intent)
                    ELSE <<"query">>
    IN {<<>>, <<required[1]>>, required, <<"note">>}

Operations == {"add", "subtract", "multiply", "divide", "power", "sqrt", "modulo"}

NumberTexts == <<"0", "4", "0.0", "-4", "inf", "nan", "abc">>

MaxOperands == 11

RECURSIVE Repeated(_, _)
\* s * n
Repeated(s, n) ==
    IF n = 0 THEN "" ELSE IF n = 1 THEN s
    ELSE Repeated(s, n \div 2) \o Repeated(s, n - n \div 2)

\* the digits of 10^309, the least power of ten that float() reads as inf
HugeInteger == "1" \o Repeated("0", FloatMax10Exp)

\* lists of at most MaxOperands operands: "4" everywhere but at one place,
\* every pair, two texts taking turns, and lists with 10^309
NumberLists ==
    {[j \in 1..n |-> "4"] : n \in 0..MaxOperands}
    \cup {[j \in 1..n |-> IF j = i THEN NumberTexts[a] ELSE "4"] :
            n \in 1..MaxOperands, i \in 1..MaxOperands, a \in 1..Len(NumberTexts)}
    \cup {<<NumberTexts[a], NumberTexts[b]>> : a, b \in 1..Len(NumberTexts)}
    \cup {[j \in 1..n |-> IF j % 2 = 1 THEN NumberTexts[a] ELSE NumberTexts[b]] :
            n \in 2..MaxOperands, a \in 1..Len(NumberTexts), b \in 1..Len(NumberTexts)}
    \cup {<<HugeInteger, "4">>, <<"4", HugeInteger>>, <<HugeInteger, "-4", "4">>}

\* the utterances the claims name
Examples ==
    { "calculate 15 plus 27", "divide 10 by 0", "calculate something", "square root of 16",
      "square root of -4", "calculate abc plus def", "search for Python tutorials",
      "what's the weather", "book a flight", "power 10 to 309", "hello there", "" }

UnitCheckMissing(intent, extracted_info) ==
    /\ pc = "idle"
    /\ unit.fn = None
    /\ unit' = [fn |-> "check_missing_info", intent |-> intent,
                extracted_info |-> extracted_info,
                ret |-> check_missing_info(intent, extracted_info)]
    /\ UNCHANGED <<tables, pc, user_input, intent_result, missing_info, action, result,
                   response, last>>

UnitDecideAction(intent, missing, extracted_info) ==
    /\ pc = "idle"
    /\ unit.fn = None
    /\ unit' = [fn |-> "decide_action", intent |-> intent, missing_info |-> missing,
                extracted_info |-> extracted_info,
                ret |-> decide_action(intent, missing, extracted_info)]
    /\ UNCHANGED <<tables, pc, user_input, intent_result, missing_info, action, result,
                   response, last>>

UnitCalculator(data) ==
    /\ pc = "idle"
    /\ unit.fn = None
    /\ unit' = [fn |-> "_call_calculator_api", data |-> data, ret |-> call_calculator_api(data)]
    /\ UNCHANGED <<tables, pc, user_input, intent_result, missing_info, action, result,
                   response, last>>

\* the caller drops what the call returned
UnitDone ==
    /\ unit.fn # None
    /\ unit' = NoCall
    /\ UNCHANGED <<tables, pc, user_input, intent_result, missing_info, action, result,
                   response, last>>

NextUnit ==
    \/ \E intent \in Intents : \E c \in SlotChoices(intent) :
          UnitCheckMissing(intent, SlotMap(intent, c))
    \/ \E intent \in Intents : \E missing \in MissingLists(intent) :
          \E c \in {d \in SlotChoices(intent) : \A f \in FieldsOf(intent) : d[f] \in {0, 2, 4}} :
             UnitDecideAction(intent, missing, SlotMap(intent, c))
    \/ \E operation \in Operations : \E numbers \in NumberLists :
          UnitCalculator([operation |-> operation, numbers |-> numbers])
    \/ UnitDone
    \/ \E u \in Examples : ParseIntent(u)
    \/ CheckMissing
    \/ DecideAction
    \/ ExecuteAction
    \/ Return
    \/ Resume(FALSE)

SpecUnit == Init /\ [][NextUnit]_vars

-----------------------------------------------------------------------------
(* Calls of process_input one after another, the caller keeping the last   *)
(* response to compare the next one with.                                  *)

HistoryUtterances ==
    { "calculate 15 plus 27", "  Calculate 15 PLUS 27 ", "CALCULATE 15 plus 27",
      "weather in paris", "Weather In PARIS", " weather in paris  ", "divide 10 by 0",
      "DIVIDE 10 BY 0", "hello there", "Hello There ", "book a flight", "" , "   " }

NextHistory ==
    \/ \E u \in HistoryUtterances : ParseIntent(u)
    \/ CheckMissing
    \/ DecideAction
    \/ ExecuteAction
    \/ Return
    \/ Resume(TRUE)

SpecHistory == Init /\ [][NextHistory]_vars

-----------------------------------------------------------------------------
(* The properties.                                                         *)

InitialTables == <<RequiredFields, ApiEndpoints, IntentPatterns, IntentKeywords>>

DeclaredPairs == Flatten(IntentPatterns, 1)

\* the places, in declaration order, of the patterns that match s
MatchingPairs(s) == {j \in 1..Len(DeclaredPairs) : Search(DeclaredPairs[j][2], s).ok}


\* the place of an intent in the pattern table
IntentRank(intent) == CHOOSE i \in 1..Len(IntentPatterns) : IntentPatterns[i][1] = intent

\* some keyword of some intent occurs in s, which is when the best score is positive
AnyKeyword(s) ==
    \E i \in 1..Len(IntentKeywords) :
        \E j \in 1..Len(IntentKeywords[i][2]) : Contains(s, IntentKeywords[i][2][j])

C2_Phases ==
    pc = "parsed" =>
        LET s == Normalize(user_input)
            anyPattern == MatchingPairs(s) # {}
            method == intent_result.detection_method
        IN /\ method \in {"pattern", "keywords", "default"}
           /\ (method = "pattern") <=> anyPattern
           /\ (method = "keywords") <=> (~anyPattern /\ AnyKeyword(s))
           /\ method = "pattern" => intent_result.confidence = "0.9"
           /\ method = "keywords" => intent_result.confidence = "0.7"
           /\ method = "default" =>
                /\ intent_result.confidence = "0.3"
                /\ intent_result.intent = "search"
                /\ DOMAIN intent_result.extracted_info = {"query"}
                /\ intent_result.extracted_info["query"] = s

\* no pattern matches, a keyword does
C2_Witness ==
    /\ pc = "parsed"
    /\ intent_result.detection_method = "keywords"
    /\ intent_result.confidence = "0.7"
    /\ MatchingPairs(Normalize(user_input)) = {}

\* C3: check_missing_info returns the required fields of the intent that are
\* absent from the slots or hold an empty string or list, each once, in the
\* declared order, and the empty list for an intent without required fields
C3_Missing ==
    unit.fn = "check_missing_info" =>
        LET known == HasKey(RequiredFields, unit.intent)
            required == IF known THEN Get(RequiredFields, unit.intent) ELSE <<>>
            slots == unit.extracted_info
            Lacking(f) == f \notin DOMAIN slots \/ Len(slots[f]) = 0
            Place(f) == CHOOSE j \in 1..Len(required) : required[j] = f
        IN /\ SetOf(unit.ret) = {f \in SetOf(required) : Lacking(f)}
           /\ \A a, b \in 1..Len(unit.ret) : a < b => Place(unit.ret[a]) < Place(unit.ret[b])
           /\ ~known => unit.ret = <<>>

\* a flight with a destination, an empty origin and no date
C3_Witness ==
    /\ unit.fn = "check_missing_info"
    /\ unit.intent = "book_flight"
    /\ DOMAIN unit.extracted_info = {"origin", "destination"}
    /\ Len(unit.extracted_info["origin"]) = 0
    /\ unit.ret = <<"origin", "date">>

\* C4: decide_action asks for information, with the same list, when the list
\* of missing fields is not empty; else calls the intent's registered
\* endpoint with the slots as payload; else answers directly; it returns one
\* of the three action types and leaves its arguments and the tables alone
C4_Decide ==
    /\ tables = InitialTables
    /\ unit.fn = "decide_action" =>
         LET r == unit.ret
             asks == Len(unit.missing_info) > 0
             registered == HasKey(ApiEndpoints, unit.intent)
         IN /\ r.type \in {ASK_FOR_INFO, CALL_API, ANSWER_DIRECTLY}
            /\ (r.type = ASK_FOR_INFO) <=> asks
            /\ (r.type = CALL_API) <=> (~asks /\ registered)
            /\ (r.type = ANSWER_DIRECTLY) <=> (~asks /\ ~registered)
            /\ r.type = ASK_FOR_INFO =>
                 r.data.missing_fields = unit.missing_info /\ r.data.intent = unit.intent
            /\ r.type = CALL_API =>
                 /\ r.data.endpoint = Get(ApiEndpoints, unit.intent)
                 /\ r.data.data = unit.extracted_info
            /\ r.type = ANSWER_DIRECTLY => r.data.data = unit.extracted_info

\* fields are missing for an intent that has an endpoint
C4_Witness ==
    /\ unit.fn = "decide_action"
    /\ Len(unit.missing_info) > 0
    /\ HasKey(ApiEndpoints, unit.intent)
    /\ unit.ret.type = ASK_FOR_INFO
    /\ unit.ret.data.missing_fields = unit.missing_info

ResponseKeys == {"input", "intent_analysis", "missing_info", "action_taken", "result"}

\* C5: process_input raises nothing; what it returns holds the utterance it
\* was given, the classification, the list of missing fields, one of the
\* three action names and a result; a failure of the calculator is in that
\* result with status error
C5_Total ==
    /\ pc # "raised"
    /\ pc = "returned" =>
         /\ DOMAIN response = ResponseKeys
         /\ response.input = user_input
         /\ {"intent", "confidence", "extracted_info", "detection_method"}
               \subseteq DOMAIN response.intent_analysis
         /\ \A j \in 1..Len(response.missing_info) : Len(response.missing_info[j]) > 0
         /\ response.action_taken \in {"ask_for_info", "call_api", "answer_directly"}
         /\ "type" \in DOMAIN response.result
         /\ (response.result.type = "api_response" /\ response.result.endpoint = "calculator") =>
              /\ response.result.status \in {"success", "error"}
              /\ (response.result.status = "error") <=> StartsWith(response.result.result, "Error")
              /\ (response.result.status = "error") <=> ("error_type" \in DOMAIN response.result)

\* the calculator was called and failed
C5_Witness ==
    /\ pc = "returned"
    /\ response.action_taken = "call_api"
    /\ response.result.endpoint = "calculator"
    /\ response.result.status = "error"

\* the calculator is about to be, or was, called with operands whose result overflows
Overflows(data) ==
    /\ {"operation", "numbers"} \subseteq DOMAIN data
    /\ Len(data.numbers) \in 1..MaxNumbers
    /\ data.operation = "sqrt" \/ Len(data.numbers) >= 2
    /\ LET c == Compute(data.operation, data.numbers)
       IN IsRaise(c) /\ c.exc = "OverflowError"

CalculatorOverflowed ==
    /\ pc = "executed"
    /\ action.type = CALL_API
    /\ action.data.endpoint = "calculator_api"
    /\ Overflows(action.data.data)

Parseable(numbers) == \A j \in 1..Len(numbers) : ~IsRaise(ParseFloat(numbers[j]))

ZeroAfterFirst(numbers) == \E j \in 2..Len(numbers) : ParseFloat(numbers[j]).ret = FInt(0)

AllFinite(numbers) == \A j \in 1..Len(numbers) : IsFin(ParseFloat(numbers[j]).ret)

\* the evaluator was called to divide two to ten operands float() accepts
DivideCall ==
    /\ unit.fn = "_call_calculator_api"
    /\ unit.data.operation = "divide"
    /\ Len(unit.data.numbers) \in 2..MaxNumbers
    /\ Parseable(unit.data.numbers)

DivideByZeroReported(r) ==
    /\ r.status = "error"
    /\ r.error_type = "calculation_error"
    /\ Contains(Lower(r.result), "divide by zero")

\* 'divide 10 by 0' through process_input
DivideTenByZero ==
    (pc = "returned" /\ response.input = "divide 10 by 0") => DivideByZeroReported(response.result)

\* C7 as stated: with a zero after the first operand the evaluator reports a
\* division by zero, and without one it returns success
C7_DivideAnyOperands ==
    /\ DivideCall =>
         IF ZeroAfterFirst(unit.data.numbers) THEN DivideByZeroReported(unit.ret)
         ELSE unit.ret.status = "success"
    /\ DivideTenByZero

\* C7: with a zero after the first operand the evaluator reports a division
\* by zero as a calculation_error; without one and with every operand finite
\* it returns success; 'divide 10 by 0' end to end is that error
C7_Divide ==
    /\ DivideCall =>
         /\ ZeroAfterFirst(unit.data.numbers) => DivideByZeroReported(unit.ret)
         /\ (~ZeroAfterFirst(unit.data.numbers) /\ AllFinite(unit.data.numbers)) =>
               unit.ret.status = "success"
    /\ DivideTenByZero

\* ten operands, the last of them zero
C7_Witness ==
    /\ DivideCall
    /\ Len(unit.data.numbers) = MaxNumbers
    /\ ParseFloat(unit.data.numbers[MaxNumbers]).ret = FInt(0)
    /\ DivideByZeroReported(unit.ret)

C10_CalculateSomething ==
    (pc = "returned" /\ response.input = "calculate something") =>
        /\ response.intent_analysis.intent = "calculate"
        /\ "numbers" \in SetOf(response.missing_info)
        /\ response.action_taken = "ask_for_info"

C10_Witness ==
    /\ pc = "returned"
    /\ response.input = "calculate something"
    /\ response.result.type = "ask_for_info"

\* C11: 'square root of 16' extracts operation 'sqrt' and numbers ['16'],
\* calls the calculator and succeeds with the sign, '(16.0) = 4'
C11_SquareRootOfSixteen ==
    (pc = "returned" /\ response.input = "square root of 16") =>
        /\ response.intent_analysis.intent = "calculate"
        /\ response.intent_analysis.extracted_info =
              [operation |-> "sqrt", numbers |-> <<"16">>]
        /\ response.action_taken = "call_api"
        /\ response.result.endpoint = "calculator"
        /\ response.result.status = "success"
        /\ response.result.result = SqrtSign \o "(16.0) = 4"

C11_Witness ==
    /\ pc = "returned"
    /\ response.input = "square root of 16"
    /\ response.result.type = "api_response"
    /\ response.result.data.operation = "sqrt"

\* the utterances that name an intent and give none of its slots, with the intent
BareUtterances ==
    << <<"calculate something", "calculate">>, <<"what's the weather", "weather">>,
       <<"book a flight", "book_flight">>, <<"send an email", "send_email">> >>

\* C12: after parse_intent and check_missing_info on an utterance that names
\* an intent and gives none of its slots, the missing fields are all the
\* required fields of that intent, in declared order
C12_BareUtteranceMissesAll ==
    \A j \in 1..Len(BareUtterances) :
        (pc = "checked" /\ user_input = BareUtterances[j][1]) =>
            /\ intent_result.intent = BareUtterances[j][2]
            /\ missing_info = Get(RequiredFields, BareUtterances[j][2])

\* C13: 'calculate abc plus def', whose operands are words, reaches the
\* calculator and returns an api_response with status 'error' whose 'result'
\* carries the text about the invalid number
C13_WordOperandsReachCalculator ==
    (pc = "returned" /\ response.input = "calculate abc plus def") =>
        /\ response.action_taken = "call_api"
        /\ response.result.type = "api_response"
        /\ "result" \in DOMAIN response.result
        /\ response.result.status = "error"
        /\ Contains(response.result.result, "is not a valid number")

\* C14: 'square root of -4' returns a calculator api_response with status
\* 'error' saying the square root of a negative number cannot be calculated
C14_NegativeSquareRootIsError ==
    (pc = "returned" /\ response.input = "square root of -4") =>
        /\ response.action_taken = "call_api"
        /\ response.result.type = "api_response"
        /\ response.result.status = "error"
        /\ response.result.result = "Error: Cannot calculate square root of negative number"

\* C15: 'search for Python tutorials', a search with a query, is answered
\* directly
C15_SearchAnsweredDirectly ==
    (pc = "returned" /\ response.input = "search for Python tutorials") =>
        /\ response.intent_analysis.intent = "search"
        /\ response.action_taken = "answer_directly"
        /\ response.result.type = "direct_answer"

\* no call of process_input is answered directly: every intent parse_intent
\* returns has an endpoint
NeverAnsweredDirectly ==
    pc = "returned" => response.action_taken # "answer_directly"

\* an operand text without its sign, and its parts before and after the dot
Unsigned(t) == IF Len(t) > 0 /\ Char(t, 1) \in {"+", "-"} THEN SubSeq(t, 2, Len(t)) ELSE t
IntegerPart(b) == IF Find(b, ".") = 0 THEN b ELSE SubSeq(b, 1, Find(b, ".") - 1)
FractionPart(b) == IF Find(b, ".") = 0 THEN "" ELSE SubSeq(b, Find(b, ".") + 1, Len(b))

\* the text writes an integer: digits, with at most zeros after a dot
IntegralText(t) ==
    /\ Len(IntegerPart(Unsigned(t))) > 0
    /\ AllDigits(IntegerPart(Unsigned(t)))
    /\ \A i \in 1..Len(FractionPart(Unsigned(t))) : Char(FractionPart(Unsigned(t)), i) = "0"

\* the text writes an integer that a float holds exactly
ExactIntegerText(t) == IntegralText(t) /\ IsIntegral(ParseFloat(t).ret)

\* the integer an exact integer text writes
IntegerOf(t) ==
    (IF Len(t) > 0 /\ Char(t, 1) = "-" THEN -1 ELSE 1) * DigitsToInt(IntegerPart(Unsigned(t)), 1, 0)

RECURSIVE IntegerSum(_, _)
IntegerSum(ns, j) == IF j > Len(ns) THEN 0 ELSE ns[j] + IntegerSum(ns, j + 1)

RECURSIVE IntegerProduct(_, _)
IntegerProduct(ns, j) == IF j > Len(ns) THEN 1 ELSE ns[j] * IntegerProduct(ns, j + 1)

\* the reference value of add, subtract and multiply on integers
IntegerValue(operation, ns) ==
    CASE operation = "add" -> IntegerSum(ns, 1)
      [] operation = "subtract" -> ns[1] - IntegerSum(ns, 2)
      [] operation = "multiply" -> IntegerProduct(ns, 1)

\* what a rendered result shows after its equals sign
AfterEquals(r) == SubSeq(r, Find(r, " = ") + 3, Len(r))

\* a call of the evaluator with add, subtract or multiply and 2 to 10 operands
IntegerCall ==
    /\ unit.fn = "_call_calculator_api"
    /\ unit.data.operation \in {"add", "subtract", "multiply"}
    /\ Len(unit.data.numbers) \in 2..MaxNumbers

\* the call succeeded and shows the exact integer
ShowsExactInteger ==
    /\ unit.ret.status = "success"
    /\ AfterEquals(unit.ret.result) =
          IntStr(IntegerValue(unit.data.operation,
                              [j \in 1..Len(unit.data.numbers) |-> IntegerOf(unit.data.numbers[j])]))

Unparseable(ns) == {j \in 1..Len(ns) : IsRaise(ParseFloat(ns[j]))}

FloatsOf(ns) == [j \in 1..Len(ns) |-> ParseFloat(ns[j]).ret]

\* the fifth check, on the floats: the message of the operation's own check, "" when it passes
OperationFailure(operation, xs) ==
    IF operation = "power"
    THEN (IF Len(xs) # 2 THEN "Error: Power operation requires exactly two numbers" ELSE "")
    ELSE IF operation = "sqrt"
    THEN (IF Len(xs) # 1 THEN "Error: Square root operation requires exactly one number"
          ELSE IF FNeg(xs[1]) THEN "Error: Cannot calculate square root of negative number"
          ELSE "")
    ELSE IF operation = "divide"
    THEN (IF ZeroInRest(xs) THEN "Error: Cannot divide by zero" ELSE "")
    ELSE IF operation \in {"add", "subtract", "multiply"} THEN ""
    ELSE "Error: Unknown operation '" \o operation
         \o "'. Supported operations: add, subtract, multiply, divide, power, sqrt"

\* the message of the first check that fails, in the order empty list, minimum
\* count, more than ten, unparseable operand, the operation's own check; ""
\* when every check passes
FirstFailure(operation, ns) ==
    IF Len(ns) = 0 THEN "Error: No numbers provided for calculation"
    ELSE IF operation # "sqrt" /\ Len(ns) < 2
    THEN "Error: Need at least two numbers for calculation"
    ELSE IF Len(ns) > 10 THEN "Error: Too many numbers provided (maximum 10)"
    ELSE IF Unparseable(ns) # {}
    THEN "Error: '" \o ns[Least(Unparseable(ns))] \o "' is not a valid number"
    ELSE OperationFailure(operation, FloatsOf(ns))

\* C17: the evaluator reports the first failing check in the order empty
\* list, minimum operand count, more than ten operands, unparseable operand,
\* the operation's own check, each as status 'error' of kind
\* 'calculation_error'; eleven operands give 'Too many numbers' whatever the
\* operation and the operands
C17_ValidationOrder ==
    unit.fn = "_call_calculator_api" =>
        /\ FirstFailure(unit.data.operation, unit.data.numbers) # "" =>
              /\ unit.ret.status = "error"
              /\ unit.ret.error_type = "calculation_error"
              /\ unit.ret.result = FirstFailure(unit.data.operation, unit.data.numbers)
        /\ Len(unit.data.numbers) = 11 =>
              unit.ret.result = "Error: Too many numbers provided (maximum 10)"

C17_Witness ==
    /\ unit.fn = "_call_calculator_api"
    /\ unit.data.operation = "modulo"
    /\ Len(unit.data.numbers) = 11
    /\ unit.data.numbers[1] = "abc"
    /\ unit.ret.error_type = "calculation_error"
    /\ unit.ret.result = "Error: Too many numbers provided (maximum 10)"

RECURSIVE SumOfPrefix(_, _)
\* the sum of the first n of xs
SumOfPrefix(xs, n) == IF n = 0 THEN FInt(0) ELSE FAdd(SumOfPrefix(xs, n - 1), xs[n])

RECURSIVE ProductOfPrefix(_, _)
ProductOfPrefix(xs, n) == IF n = 0 THEN FInt(1) ELSE FMul(ProductOfPrefix(xs, n - 1), xs[n])

RECURSIVE QuotientOfPrefix(_, _)
\* xs[1] divided by xs[2], then by xs[3], up to xs[n]; the divisors are not zero
QuotientOfPrefix(xs, n) ==
    IF n = 1 THEN xs[1] ELSE FDiv(QuotientOfPrefix(xs, n - 1), xs[n]).ret

\* the value the operation has on operands that passed the checks, or what
\* raising to the power raised
ReferenceValue(operation, xs) ==
    CASE operation = "add" -> Ret(SumOfPrefix(xs, Len(xs)))
      [] operation = "subtract" -> Ret(FSub(xs[1], SumOfPrefix(Tail(xs), Len(xs) - 1)))
      [] operation = "multiply" -> Ret(ProductOfPrefix(xs, Len(xs)))
      [] operation = "divide" -> Ret(QuotientOfPrefix(xs, Len(xs)))
      [] operation = "power" -> FPow(xs[1], xs[2])
      [] operation = "sqrt" -> FPow(xs[1], Frac(1, 2))

\* how a finite value is shown: as an integer, or rounded to six places
Shown(v) == IF IsIntegral(v) THEN IntStr(v.n) ELSE FloatStr(Round6(v))

\* ret shows the value r, when r is a finite number
ShowsValue(ret, r) ==
    (~IsRaise(r) /\ IsFin(r.ret)) =>
        /\ ret.status = "success"
        /\ AfterEquals(ret.result) = Shown(r.ret)

\* C18: on operands that pass the checks the evaluator shows the sum for
\* add, the first operand minus the sum of the rest for subtract, the
\* product for multiply, the first operand divided by each later one in turn
\* for divide, the first operand raised to the second for power and the
\* operand raised to 0.5 for sqrt
C18_Computes ==
    (unit.fn = "_call_calculator_api"
     /\ FirstFailure(unit.data.operation, unit.data.numbers) = "") =>
        ShowsValue(unit.ret, ReferenceValue(unit.data.operation, FloatsOf(unit.data.numbers)))

C18_Witness ==
    /\ unit.fn = "_call_calculator_api"
    /\ unit.data.operation = "divide"
    /\ unit.data.numbers = <<"4", "-4", "4", "-4">>
    /\ unit.ret.status = "success"
    /\ AfterEquals(unit.ret.result) = "0.0625"

\* the keyword stands in s between white space or the ends
IsToken(s, w) == \E i \in Occurrences(s, w) : IsSpaceAt(s, i - 1) /\ IsSpaceAt(s, i + Len(w))

\* the score of the i-th intent of the keyword table, in halves: 1 for each
\* keyword that is a substring of s and 0.5 more when it is a token
HalfPoints(i, s) ==
    2 * Cardinality({k \in 1..Len(intent_keywords[i][2]) : Contains(s, intent_keywords[i][2][k])})
    + Cardinality({k \in 1..Len(intent_keywords[i][2]) : IsToken(s, intent_keywords[i][2][k])})

BestScore(s) == Greatest({HalfPoints(i, s) : i \in 1..Len(intent_keywords)})

\* the first declared of the intents with the best score
Winner(s) ==
    intent_keywords[Least({i \in 1..Len(intent_keywords) : HalfPoints(i, s) = BestScore(s)})][1]

\* C19: when no pattern matches, the intent is the one whose keywords score
\* highest, 1 for a keyword that is a substring of the normalized utterance
\* and 0.5 more when it is a token, ties going to the intent declared first;
\* when the best score is 0 no intent is found and the default phase answers
C19_KeywordPhase ==
    (pc = "parsed" /\ intent_result.detection_method # "pattern") =>
        IF BestScore(Normalize(user_input)) = 0
        THEN intent_result.detection_method = "default" /\ intent_result.intent = "search"
        ELSE /\ intent_result.detection_method = "keywords"
             /\ intent_result.intent = Winner(Normalize(user_input))

\* a tie of weather and schedule_meeting at 1.5 each
C19_Witness ==
    /\ pc = "parsed"
    /\ user_input = "cold call"
    /\ HalfPoints(2, "cold call") = 3
    /\ HalfPoints(6, "cold call") = 3
    /\ BestScore("cold call") = 3
    /\ intent_result.detection_method = "keywords"
    /\ intent_result.intent = "weather"

\* the priority list of the operations with their words and symbols
OperationWords ==
    << <<"add", <<"plus", "+">> >>,
       <<"subtract", <<"minus", "-">> >>,
       <<"multiply", <<"times", "*", "multiply">> >>,
       <<"divide", <<"divide", "/", "divided by">> >>,
       <<"power", <<"power", "exponent", "raised to", "^">> >>,
       <<"sqrt", <<"square root", "sqrt", "root", "radical">> >> >>

\* the entries of the list with a word or symbol that occurs in s
Occurring(s) ==
    {i \in 1..Len(OperationWords) :
        \E k \in 1..Len(OperationWords[i][2]) : Contains(s, OperationWords[i][2][k])}

\* the first entry of the list that occurs in s, 'add' when none does
PriorityOperation(s) ==
    IF Occurring(s) = {} THEN "add" ELSE OperationWords[Least(Occurring(s))][1]

\* C20: for every utterance classified as calculate, by pattern or by
\* keywords, the extracted operation is the first entry of the priority list
\* whose word or symbol occurs in the normalized utterance, and 'add' when
\* none occurs; 'root of 16' and 'radical of 16' give 'sqrt'
C20_OperationByPriority ==
    (pc = "parsed" /\ intent_result.intent = "calculate") =>
        intent_result.extracted_info.operation = PriorityOperation(Normalize(user_input))

\* the same for the utterances that a pattern with two operand groups
\* matches or that the keywords classify
OperationByPriorityOutsideOneGroup ==
    (pc = "parsed" /\ intent_result.intent = "calculate"
     /\ ~Search(Get(IntentPatterns, "calculate")[8], Normalize(user_input)).ok
     /\ ~Search(Get(IntentPatterns, "calculate")[9], Normalize(user_input)).ok) =>
        intent_result.extracted_info.operation = PriorityOperation(Normalize(user_input))

\* the slots the pattern mode fills with capture groups: <<slot, group>>
GroupSlots(intent) ==
    CASE intent = "weather" -> << <<"location", 1>> >>
      [] intent = "book_flight" -> << <<"origin", 1>>, <<"destination", 2>>, <<"date", 3>> >>
      [] intent = "send_email" -> << <<"recipient", 1>>, <<"subject", 2>> >>
      [] intent = "search" -> << <<"query", 1>> >>
      [] intent = "schedule_meeting" -> << <<"participants", 1>>, <<"date", 2>> >>
      [] OTHER -> <<>>

\* the capture groups of the pattern that classified s
GroupsOf(s) == FirstPatternMatch(Flatten(intent_patterns, 1), s).groups

AnyMatches(ps, s) == \E j \in 1..Len(ps) : Search(ps[j], s).ok

\* the slots whose sub-pattern matches s, with the two slots of calculate and
\* the query, which have no sub-pattern
KeywordSlots(intent, s) ==
    CASE intent = "calculate" -> {"operation", "numbers"}
      [] intent = "search" -> {"query"}
      [] intent = "weather" ->
            IF AnyMatches(location_patterns, s) \/ FindAll(CapitalizedRe, s) # <<>>
            THEN {"location"} ELSE {}
      [] intent = "book_flight" ->
            (IF Search(from_to_pattern, s).ok THEN {"origin", "destination"} ELSE {})
            \cup (IF AnyMatches(date_patterns, s) THEN {"date"} ELSE {})
      [] intent = "send_email" ->
            (IF FindAll(email_pattern, s) # <<>> THEN {"recipient"} ELSE {})
            \cup (IF Search(subject_pattern, s).ok THEN {"subject"} ELSE {})
      [] intent = "schedule_meeting" ->
            (IF Search(with_pattern, s).ok THEN {"participants"} ELSE {})
            \cup (IF AnyMatches(date_patterns, s) THEN {"date"} ELSE {})
      [] OTHER -> {}

\* the intent was found by a pattern and its slots come from capture groups
ByGroups ==
    /\ pc = "parsed"
    /\ intent_result.detection_method = "pattern"
    /\ intent_result.intent # "calculate"

\* C21 as stated: extraction never raises, and a slot is in the mapping only
\* when its capture group took part in the match
C21_UnmatchedSlotAbsent ==
    /\ pc # "raised"
    /\ ByGroups =>
          \A j \in 1..Len(GroupSlots(intent_result.intent)) :
              GroupSlots(intent_result.intent)[j][1] \in DOMAIN intent_result.extracted_info
                  => GroupsOf(Normalize(user_input))[GroupSlots(intent_result.intent)[j][2]].some

\* C21: extraction never raises; by pattern every slot of the intent is in
\* the mapping, as the empty string when its capture group took no part in
\* the match; by keywords the mapping holds exactly the slots whose
\* sub-pattern matched, with operation and numbers for calculate and the
\* query for search
C21_SlotsByMode ==
    /\ pc # "raised"
    /\ ByGroups =>
          \A j \in 1..Len(GroupSlots(intent_result.intent)) :
              /\ GroupSlots(intent_result.intent)[j][1] \in DOMAIN intent_result.extracted_info
              /\ ~GroupsOf(Normalize(user_input))[GroupSlots(intent_result.intent)[j][2]].some
                    => intent_result.extracted_info[GroupSlots(intent_result.intent)[j][1]] = ""
    /\ (pc = "parsed" /\ intent_result.intent = "calculate") =>
          DOMAIN intent_result.extracted_info = {"operation", "numbers"}
    /\ (pc = "parsed" /\ intent_result.detection_method = "keywords") =>
          DOMAIN intent_result.extracted_info
              = KeywordSlots(intent_result.intent, Normalize(user_input))

C21_Witness ==
    /\ ByGroups
    /\ user_input = "book a flight"
    /\ ~GroupsOf("book a flight")[3].some
    /\ intent_result.extracted_info = [origin |-> "book", destination |-> "a", date |-> ""]

\* the base sentence of an intent, the generic one for an intent with none
BaseSentence(intent) ==
    IF \E i \in 1..Len(intent_messages) : intent_messages[i][1] = intent
    THEN Get(intent_messages, intent)
    ELSE "I need more information to help you."

\* the question of a field, 'Please provide <field>.' for a field with none
FieldQuestion(field) ==
    IF \E i \in 1..Len(field_messages) : field_messages[i][1] = field
    THEN Get(field_messages, field)
    ELSE "Please provide " \o field \o "."

\* a call of decide_action that asked for information
AskedForInfo == unit.fn = "decide_action" /\ unit.ret.type = "ask_for_info"

\* C22: the message that asks for information is the base sentence of the
\* intent, followed by the question of the field when exactly one field is
\* missing, and alone when two or more are missing
C22_ClarificationMessage ==
    AskedForInfo =>
        /\ Len(unit.missing_info) = 1 =>
              unit.ret.data.message
                  = BaseSentence(unit.intent) \o " " \o FieldQuestion(unit.missing_info[1])
        /\ Len(unit.missing_info) >= 2 => unit.ret.data.message = BaseSentence(unit.intent)

\* one missing field with no question of its own, for an intent with no sentence
C22_Witness ==
    /\ AskedForInfo
    /\ unit.intent = UnknownIntent
    /\ unit.missing_info = <<"note">>
    /\ unit.ret.data.message = "I need more information to help you. Please provide note."

\* several missing fields: the base sentence alone
C22_WitnessSeveral ==
    /\ AskedForInfo
    /\ unit.missing_info = <<"origin", "destination", "date">>
    /\ unit.ret.data.message = "I need the origin, destination, and date for your flight."

\* C23: in every response of process_input the action is ask_for_info
\* exactly when something is missing and exactly when the result is of type
\* ask_for_info, with the same list of fields; the action is call_api exactly
\* when the result is an api_response; an api_response carries an error kind
\* exactly when its status is 'error', and the endpoints other than the
\* calculator report 'success'
C23_OutcomeFieldsAgree ==
    pc = "returned" =>
        /\ (response.action_taken = "ask_for_info") = (response.missing_info # <<>>)
        /\ (response.action_taken = "ask_for_info") = (response.result.type = "ask_for_info")
        /\ response.result.type = "ask_for_info" =>
              response.result.missing_fields = response.missing_info
        /\ (response.action_taken = "call_api") = (response.result.type = "api_response")
        /\ response.result.type = "api_response" =>
              /\ response.result.status \in {"success", "error"}
              /\ ("error_type" \in DOMAIN response.result) = (response.result.status = "error")
              /\ response.result.endpoint # "calculator" => response.result.status = "success"

\* a calculator error with its kind
C23_Witness ==
    /\ pc = "returned"
    /\ response.input = "divide 10 by 0"
    /\ response.action_taken = "call_api"
    /\ response.missing_info = <<>>
    /\ response.result.status = "error"
    /\ response.result.error_type = "calculation_error"

\* the required slot that no extractor sets
UnsetSlot(intent) == IF intent = "send_email" THEN "message" ELSE "duration"

\* C24: a response classified send_email or schedule_meeting always misses
\* 'message' or 'duration' and asks for information, and no response comes
\* from the email or the calendar endpoint
C24_EmailAndMeetingAlwaysAsk ==
    pc = "returned" =>
        /\ response.intent_analysis.intent \in {"send_email", "schedule_meeting"} =>
              /\ UnsetSlot(response.intent_analysis.intent)
                    \notin DOMAIN response.intent_analysis.extracted_info
              /\ UnsetSlot(response.intent_analysis.intent) \in SetOf(response.missing_info)
              /\ response.action_taken = "ask_for_info"
        /\ response.result.type = "api_response" =>
              response.result.endpoint \notin {"email", "calendar"}

\* every slot an extractor can set is set, and the message is still missing
C24_Witness ==
    /\ pc = "returned"
    /\ response.input = "john@example.com inbox about lunch"
    /\ response.intent_analysis.intent = "send_email"
    /\ response.intent_analysis.extracted_info
          = [recipient |-> "john@example.com", subject |-> "lunch"]
    /\ response.missing_info = <<"message">>
    /\ response.action_taken = "ask_for_info"

\* digits, with at most a dot and more digits after them
UnsignedDecimal(t) ==
    /\ Len(IntegerPart(t)) > 0
    /\ AllDigits(IntegerPart(t))
    /\ AllDigits(FractionPart(t))
    /\ Find(t, ".") > 0 => Len(FractionPart(t)) > 0

\* process_input returned what the calculator gave
CalculatorInvoked ==
    /\ pc = "returned"
    /\ response.result.type = "api_response"
    /\ response.result.endpoint = "calculator"

WeatherByKeywords ==
    /\ pc = "checked"
    /\ intent_result.intent = "weather"
    /\ intent_result.detection_method = "keywords"

====
